---- MODULE Spec2Model ----
(***************************************************************************)
(* Model of project-guardian:                                              *)
(*   - GuardianWatcher (src/src/guardian_watcher.py): filesystem event     *)
(*     callbacks on the observer thread, the watch() loop on the main      *)
(*     thread, debounce and re-scan;                                       *)
(*   - MindQGuardianAdapter status tracking (src/src/guardian_mindq.py):   *)
(*     record_change, _load_last_change_record, scan_guardian_status.      *)
(* Time is counted in whole seconds.                                       *)
(***************************************************************************)
EXTENDS Integers, Sequences, FiniteSets, TLC

(***************************************************************************)
(* Bounds of the model                                                     *)
(***************************************************************************)
MaxTime == 6
MaxFsOps == 2
MaxQueue == 2
MaxContent == 2
MaxLog == 2

(***************************************************************************)
(* Program constants                                                       *)
(***************************************************************************)
DEBOUNCE_TIME == 2
FLUSH_INTERVAL == 1
MINUTE == 60

WATCH_EXTENSIONS ==
    { <<".", "p", "y">>, <<".", "j", "s">>, <<".", "j", "s", "x">>,
      <<".", "t", "s">>, <<".", "t", "s", "x">>, <<".", "v", "u", "e">>,
      <<".", "s", "v", "e", "l", "t", "e">>, <<".", "j", "a", "v", "a">>,
      <<".", "k", "t">>, <<".", "s", "w", "i", "f", "t">>, <<".", "g", "o">>,
      <<".", "r", "s">>, <<".", "r", "b">>, <<".", "c", "s", "s">>,
      <<".", "s", "c", "s", "s">>, <<".", "l", "e", "s", "s">>,
      <<".", "h", "t", "m", "l">>, <<".", "m", "d">>,
      <<".", "j", "s", "o", "n">>, <<".", "y", "a", "m", "l">>,
      <<".", "y", "m", "l">>, <<".", "t", "o", "m", "l">> }

IGNORE_DIRS ==
    { "node_modules", ".git", "__pycache__", ".venv", "venv",
      "dist", "build", ".next", ".nuxt", "coverage",
      ".cursor", ".windsurf", ".vscode", ".idea" }

(***************************************************************************)
(* Paths.  A path is a record: the directory components below the project  *)
(* root (strings) and the file name (a sequence of characters, so that     *)
(* suffix, lower() and the substring test are computed as pathlib and str  *)
(* compute them).                                                          *)
(***************************************************************************)
ProjectPath == << "/", "work", "repo" >>

GuardianMdcName == <<"g","u","a","r","d","i","a","n",".","m","d","c">>
GuardianMdName == <<"g","u","a","r","d","i","a","n",".","m","d">>
CopilotName ==
    <<"c","o","p","i","l","o","t","-","i","n","s","t","r","u","c","t","i","o","n","s",".","m","d">>
ClaudeName == <<"C","L","A","U","D","E",".","m","d">>
AppName == <<"a","p","p",".","p","y">>
GuardianWord == <<"g","u","a","r","d","i","a","n">>

\* The candidate output locations, in the order _find_guardian_path tries them.
locations ==
    << [dirs |-> <<".cursor", "rules">>, name |-> GuardianMdcName],
       [dirs |-> <<".windsurf", "rules">>, name |-> GuardianMdName],
       [dirs |-> <<".github">>, name |-> CopilotName],
       [dirs |-> << >>, name |-> ClaudeName],
       [dirs |-> << >>, name |-> GuardianMdcName] >>

DefaultGuardianPath == [dirs |-> << >>, name |-> GuardianMdcName]

\* The project's source files that are edited while the watcher runs.
SourcePaths == { [dirs |-> <<"src">>, name |-> AppName] }

LocationSet == { locations[i] : i \in 1..Len(locations) }

(***************************************************************************)
(* str.lower(), pathlib suffix, substring                                  *)
(***************************************************************************)
LowerChar(c) ==
    CASE c = "A" -> "a" [] c = "B" -> "b" [] c = "C" -> "c" [] c = "D" -> "d"
      [] c = "E" -> "e" [] c = "F" -> "f" [] c = "G" -> "g" [] c = "H" -> "h"
      [] c = "I" -> "i" [] c = "J" -> "j" [] c = "K" -> "k" [] c = "L" -> "l"
      [] c = "M" -> "m" [] c = "N" -> "n" [] c = "O" -> "o" [] c = "P" -> "p"
      [] c = "Q" -> "q" [] c = "R" -> "r" [] c = "S" -> "s" [] c = "T" -> "t"
      [] c = "U" -> "u" [] c = "V" -> "v" [] c = "W" -> "w" [] c = "X" -> "x"
      [] c = "Y" -> "y" [] c = "Z" -> "z" [] OTHER -> c

Lower(s) == [i \in 1..Len(s) |-> LowerChar(s[i])]

\* Path.suffix: the part of the name from its last dot, empty when the only
\* dot is the first character, or when the name has no dot or ends in one.
Suffix(name) ==
    LET dots == { i \in 1..Len(name) : name[i] = "." }
    IN  IF dots = {} THEN << >>
        ELSE LET i == CHOOSE d \in dots : \A e \in dots : e <= d
             IN  IF i > 1 /\ i < Len(name)
                 THEN SubSeq(name, i, Len(name))
                 ELSE << >>

\* sub in s
Contains(s, sub) ==
    \E i \in 1..(Len(s) - Len(sub) + 1) : SubSeq(s, i, i + Len(sub) - 1) = sub

\* Path.parts of the absolute path; the name part is kept as characters.
DirParts(path) == ProjectPath \o path.dirs

(***************************************************************************)
(* File contents and digests                                               *)
(***************************************************************************)
Absent == << "absent" >>
Contents == { << "src", v >> : v \in 1..MaxContent }

\* hashlib.md5(bytes).hexdigest(): distinct bytes give distinct digests;
\* an unreadable or missing file gives the empty string.
EmptyHash == << >>
Md5(bytes) == << "md5", bytes >>

\* generate_mdc: the text written by save(): its timestamp has minute
\* resolution and the rest is derived from the scanned tree.
generate_mdc(tr, t) == << "mdc", t \div MINUTE, tr >>

Threads == { "observer", "main" }

VARIABLES
    now,              \* time.time(), in seconds
    tree,             \* contents of the source files on disk
    guardianFile,     \* contents of the file at guardian_path
    guardian_path,    \* self.guardian_path
    eventQueue,       \* watchdog events not yet dispatched to the handler
    _file_hashes,     \* self._file_hashes
    pending_changes,  \* self.pending_changes
    last_update,      \* self.last_update
    pc,               \* position of each thread
    changes,          \* local variable `changes` of each _do_update call
    mainWake,         \* end of the main thread's time.sleep(1)
    fsOps,            \* number of filesystem operations done by the user
    batchStart,       \* time at which pending_changes last became non-empty
    burst,            \* the burst of modify events handled since the start
    unflushed,        \* paths whose stored digest was put by a handler whose
                      \* change entry no _do_update call has copied yet
    changesFile,      \* .guardian/mindq_changes.json
    workingDiff,      \* the files `git diff --name-only HEAD` lists
    status,           \* the MindQStatus last returned, if still current
    changesCorrupt,   \* mindq_changes.json ends in a partial record
    gitOutcome,       \* how the git call of that scan_guardian_status ended
    project,          \* the project tree a GuardianScanner scans
    snapshot,         \* self.snapshot of the current GuardianScanner
    instance,         \* number of GuardianScanner instances constructed
    scans,            \* the scan() calls made so far and their outcomes
    dead_code,        \* the DeadCodeFinding list of a quality scan
    duplicates,       \* its DuplicateFile list
    violations,       \* its StructureViolation list
    summary,          \* the summary _generate_summary returned, if any
    file1,            \* first file given to _calculate_similarity
    file2,            \* second file given to _calculate_similarity
    similarity,       \* the value _calculate_similarity returned, if any
    request,          \* the request given to ChangeClassifier.classify
    classified,        \* the dictionary classify returned, if any
    source,           \* the file given to _extract_functions
    hashseed,         \* iteration order of a set of str in this process
    runs,              \* the lists the _extract_functions calls returned
    listing,          \* the paths rglob yields to DuplicateFinder.scan, in order
    threshold,        \* its argument similarity_threshold
    duplicate_files,   \* the finder after its scan: self.duplicates
    module,           \* the file given to _check_function_sizes
    size_violations,   \* the enforcer after the check: self.violations
    candidate,        \* a file below the project root
    skipped,           \* whether the scanner and each quality pass skip it, once asked
    decisions,        \* EnhancedMemoryManager.decisions
    memory_changes,   \* EnhancedMemoryManager.changes, in the order of their ids
    returned          \* the last call on the memory and what it returned

watcherVars ==
    << now, tree, guardianFile, guardian_path, eventQueue, _file_hashes,
       pending_changes, last_update, pc, changes, mainWake, fsOps,
       batchStart, burst, unflushed >>

statusVars == << changesFile, workingDiff, status, changesCorrupt, gitOutcome >>

\* The variables the watcher leaves alone, and those the status tracking
\* leaves alone.
scannerVars == << project, snapshot, instance, scans >>

healthVars == << dead_code, duplicates, violations, summary >>

similarityVars == << file1, file2, similarity >>

classifierVars == << request, classified >>

extractVars == << source, hashseed, runs >>

duplicateVars == << listing, threshold, duplicate_files >>

sizeVars == << module, size_violations >>

skipVars == << candidate, skipped >>

memoryVars == << decisions, memory_changes, returned >>

nonWatcherVars ==
    << statusVars, scannerVars, healthVars, similarityVars, classifierVars,
       extractVars, duplicateVars, sizeVars, skipVars, memoryVars >>
nonStatusVars ==
    << watcherVars, scannerVars, healthVars, similarityVars,
       classifierVars, extractVars, duplicateVars, sizeVars, skipVars,
       memoryVars >>
nonScannerVars ==
    << watcherVars, statusVars, healthVars, similarityVars, classifierVars,
       extractVars, duplicateVars, sizeVars, skipVars, memoryVars >>
nonHealthVars ==
    << watcherVars, statusVars, scannerVars, similarityVars,
       classifierVars, extractVars, duplicateVars, sizeVars, skipVars,
       memoryVars >>
nonSimilarityVars ==
    << watcherVars, statusVars, scannerVars, healthVars, classifierVars,
       extractVars, duplicateVars, sizeVars, skipVars, memoryVars >>
nonClassifierVars ==
    << watcherVars, statusVars, scannerVars, healthVars, similarityVars,
       extractVars, duplicateVars, sizeVars, skipVars, memoryVars >>
nonExtractVars ==
    << watcherVars, statusVars, scannerVars, healthVars, similarityVars,
       classifierVars, duplicateVars, sizeVars, skipVars, memoryVars >>
nonDuplicateVars ==
    << watcherVars, statusVars, scannerVars, healthVars, similarityVars,
       classifierVars, extractVars, sizeVars, skipVars, memoryVars >>
nonSizeVars ==
    << watcherVars, statusVars, scannerVars, healthVars, similarityVars,
       classifierVars, extractVars, duplicateVars, skipVars, memoryVars >>
nonSkipVars ==
    << watcherVars, statusVars, scannerVars, healthVars, similarityVars,
       classifierVars, extractVars, duplicateVars, sizeVars, memoryVars >>
nonMemoryVars ==
    << watcherVars, statusVars, scannerVars, healthVars, similarityVars,
       classifierVars, extractVars, duplicateVars, sizeVars, skipVars >>

vars ==
    << watcherVars, statusVars, scannerVars, healthVars, similarityVars,
       classifierVars, extractVars, duplicateVars, sizeVars, skipVars,
       memoryVars >>

(***************************************************************************)
(* GuardianWatcher helpers                                                 *)
(***************************************************************************)
\* _find_guardian_path: the first location that exists, else the default.
_find_guardian_path(existing) ==
    LET hits == { i \in 1..Len(locations) : locations[i] \in existing }
    IN  IF hits = {} THEN DefaultGuardianPath
        ELSE locations[CHOOSE i \in hits : \A j \in hits : i <= j]

\* _should_watch without its test of the ignored directories.
_should_watch_by_extension(path) ==
    IF Lower(Suffix(path.name)) \notin WATCH_EXTENSIONS THEN FALSE
    ELSE IF Contains(Lower(path.name), GuardianWord) THEN FALSE
    ELSE TRUE

\* _should_watch
_should_watch(path) ==
    IF Lower(Suffix(path.name)) \notin WATCH_EXTENSIONS THEN FALSE
    ELSE IF \E k \in 1..Len(DirParts(path)) : DirParts(path)[k] \in IGNORE_DIRS
         THEN FALSE
    ELSE IF Contains(Lower(path.name), GuardianWord) THEN FALSE
    ELSE TRUE

\* The bytes open(path, 'rb').read() returns, Absent when open() raises.
ReadFile(path) ==
    IF path \in SourcePaths THEN tree[path]
    ELSE IF path = guardian_path THEN guardianFile
    ELSE Absent

\* _get_file_hash
_get_file_hash(path) ==
    IF ReadFile(path) = Absent THEN EmptyHash ELSE Md5(ReadFile(path))

\* self._file_hashes.get(path, "")
HashGet(path) ==
    IF path \in DOMAIN _file_hashes THEN _file_hashes[path] ELSE EmptyHash

\* self._file_hashes[path] = h
HashPut(path, h) ==
    [q \in (DOMAIN _file_hashes) \cup {path} |->
        IF q = path THEN h ELSE _file_hashes[q]]

\* self._file_hashes.pop(path, None)
HashPop(path) ==
    [q \in (DOMAIN _file_hashes) \ {path} |-> _file_hashes[q]]

\* the entry _queue_update adds: f"{action}: {rel_path}"
ChangeEntry(action, path) == << action, path >>

\* A watchdog event.  same_bytes is not a field of the event: it records that
\* the write that caused the event left the file's bytes as they were.
Event(type, path, same) ==
    [type |-> type, path |-> path, is_directory |-> FALSE, same_bytes |-> same]

\* Some _do_update call is inside its try block (scan + save).
InScan(t) == pc[t] = "du_scan"
ScanInFlight == \E t \in Threads : InScan(t)


(***************************************************************************)
(* Status tracking state while only the watcher is exercised: no change    *)
(* log, a clean working tree, no status computed.                          *)
(***************************************************************************)
NoStatus == [status |-> "none"]

\* Python's None.
None == [none |-> TRUE]

StatusOff ==
    /\ changesFile = [exists |-> FALSE, changes |-> << >>]
    /\ workingDiff = {}
    /\ status = NoStatus
    /\ changesCorrupt = FALSE
    /\ gitOutcome = "ok"

(***************************************************************************)
(* The scanner, the quality controller and the change classifier while     *)
(* they are not exercised: nothing constructed, nothing computed.          *)
(***************************************************************************)
ScannerOff ==
    /\ project = None
    /\ snapshot = None
    /\ instance = 0
    /\ scans = << >>

HealthOff ==
    /\ dead_code = << >>
    /\ duplicates = << >>
    /\ violations = << >>
    /\ summary = None

SimilarityOff ==
    /\ file1 = [readable |-> FALSE]
    /\ file2 = [readable |-> FALSE]
    /\ similarity = None

ClassifierOff ==
    /\ request = << >>
    /\ classified = None

ExtractOff ==
    /\ source = None
    /\ hashseed = << >>
    /\ runs = << >>

DuplicateOff ==
    /\ listing = << >>
    /\ threshold = None
    /\ duplicate_files = None

SizeOff ==
    /\ module = None
    /\ size_violations = None

SkipOff ==
    /\ candidate = None
    /\ skipped = None

MemoryOff ==
    /\ decisions = << >>
    /\ memory_changes = << >>
    /\ returned = None

(***************************************************************************)
(* Initial state: GuardianWatcher.__init__ followed by observer.start()    *)
(* and the first time.sleep(1) of watch().                                 *)
(***************************************************************************)
StartTime == DEBOUNCE_TIME + 1
OldGuardian == << "mdc", 0, << >> >>

WatcherInit ==
    /\ now = StartTime
    /\ tree \in [SourcePaths -> Contents \cup {Absent}]
    /\ \E existing \in SUBSET LocationSet :
          /\ guardian_path = _find_guardian_path(existing)
          /\ guardianFile =
                IF guardian_path \in existing THEN OldGuardian ELSE Absent
    /\ eventQueue = << >>
    /\ _file_hashes = << >>
    /\ pending_changes = {}
    /\ last_update = 0
    /\ pc = [t \in Threads |-> IF t = "main" THEN "sleep" ELSE "idle"]
    /\ changes = [t \in Threads |-> {}]
    /\ mainWake = StartTime + FLUSH_INTERVAL
    /\ fsOps = 0
    /\ batchStart = 0
    /\ burst = [ok |-> TRUE, n |-> 0, first |-> 0, scans |-> 0, paths |-> {}]
    /\ unflushed = {}
    /\ StatusOff
    /\ ScannerOff /\ HealthOff /\ SimilarityOff /\ ClassifierOff
    /\ ExtractOff
    /\ DuplicateOff
    /\ SizeOff
    /\ SkipOff
    /\ MemoryOff

(***************************************************************************)
(* The environment: the clock and the user's edits of the source files.    *)
(* Each edit makes the filesystem notifier emit one event.                 *)
(***************************************************************************)
Tick ==
    /\ UNCHANGED nonWatcherVars
    /\ UNCHANGED unflushed
    /\ now < MaxTime
    /\ now' = now + 1
    /\ UNCHANGED << tree, guardianFile, guardian_path, eventQueue,
                    _file_hashes, pending_changes, last_update, pc, changes,
                    mainWake, fsOps, batchStart, burst >>

FsFrame ==
    /\ UNCHANGED nonWatcherVars
    /\ UNCHANGED unflushed
    /\ UNCHANGED << now, guardianFile, guardian_path, _file_hashes,
                 pending_changes, last_update, pc, changes, mainWake,
                 batchStart,
                 burst >>

FsGuard == fsOps < MaxFsOps /\ Len(eventQueue) < MaxQueue

\* The user rewrites a file with different bytes.
EditFile(p, c) ==
    /\ FsGuard
    /\ tree[p] # Absent /\ c # tree[p]
    /\ tree' = [tree EXCEPT ![p] = c]
    /\ eventQueue' = Append(eventQueue, Event("modified", p, FALSE))
    /\ fsOps' = fsOps + 1
    /\ FsFrame

\* The user rewrites a file with the same bytes (only its mtime changes).
TouchFile(p) ==
    /\ FsGuard
    /\ tree[p] # Absent
    /\ eventQueue' = Append(eventQueue, Event("modified", p, TRUE))
    /\ fsOps' = fsOps + 1
    /\ UNCHANGED tree
    /\ FsFrame

CreateFile(p, c) ==
    /\ FsGuard
    /\ tree[p] = Absent
    /\ tree' = [tree EXCEPT ![p] = c]
    /\ eventQueue' = Append(eventQueue, Event("created", p, FALSE))
    /\ fsOps' = fsOps + 1
    /\ FsFrame

DeleteFile(p) ==
    /\ FsGuard
    /\ tree[p] # Absent
    /\ tree' = [tree EXCEPT ![p] = Absent]
    /\ eventQueue' = Append(eventQueue, Event("deleted", p, FALSE))
    /\ fsOps' = fsOps + 1
    /\ FsFrame

(***************************************************************************)
(* The observer thread: on_created / on_modified / on_deleted up to and    *)
(* including the pending_changes.add of _queue_update.                     *)
(***************************************************************************)
\* Whether the handler of event e reaches _queue_update.
Queues(e) ==
    /\ ~e.is_directory
    /\ _should_watch(e.path)
    /\ e.type = "modified" => _get_file_hash(e.path) # HashGet(e.path)

\* _file_hashes after the handler of event e.
HashesAfter(e) ==
    IF e.is_directory \/ ~_should_watch(e.path) THEN _file_hashes
    ELSE CASE e.type = "created" -> HashPut(e.path, _get_file_hash(e.path))
           [] e.type = "modified" ->
                IF _get_file_hash(e.path) # HashGet(e.path)
                THEN HashPut(e.path, _get_file_hash(e.path))
                ELSE _file_hashes
           [] e.type = "deleted" -> HashPop(e.path)

\* The events handled so far form one burst as long as each of them was a
\* modify event with changed content, on one and the same path, handled less
\* than DEBOUNCE_TIME after the first, and no _do_update call was begun
\* while the other thread was inside _do_update; burst.scans counts the
\* scans begun.
NoBurst == [ok |-> FALSE, n |-> 0, first |-> 0, scans |-> 0, paths |-> {}]

BurstAfter(e) ==
    IF e.is_directory \/ ~_should_watch(e.path) THEN burst
    ELSE IF
       /\ burst.ok
       /\ e.type = "modified"
       /\ Queues(e)
       /\ burst.paths \subseteq {e.path}
       /\ burst.n > 0 => now - burst.first < DEBOUNCE_TIME
    THEN [burst EXCEPT !.n = @ + 1,
                       !.first = IF burst.n = 0 THEN now ELSE @,
                       !.paths = {e.path}]
    ELSE NoBurst

\* Thread t is inside _do_update.
InDoUpdate(t) == pc[t] \in {"du_164", "du_167", "du_168", "du_169", "du_scan"}

\* burst after thread t has called _do_update.
BurstAfterCall(t) ==
    IF \E u \in Threads \ {t} : InDoUpdate(u) THEN NoBurst ELSE burst

\* unflushed after the handler of event e: a handler that stores a digest
\* and queues its change makes the path unflushed, one that pops the digest
\* ends that.
UnflushedAfter(e) ==
    IF ~Queues(e) THEN unflushed
    ELSE IF e.type = "deleted" THEN unflushed \ {e.path}
    ELSE unflushed \cup {e.path}

Dispatch ==
    /\ UNCHANGED nonWatcherVars
    /\ pc["observer"] = "idle"
    /\ eventQueue # << >>
    /\ LET e == Head(eventQueue)
       IN  /\ eventQueue' = Tail(eventQueue)
           /\ _file_hashes' = HashesAfter(e)
           /\ burst' = BurstAfter(e)
           /\ unflushed' = UnflushedAfter(e)
           /\ IF Queues(e)
              THEN /\ pending_changes' =
                        pending_changes \cup {ChangeEntry(e.type, e.path)}
                   /\ batchStart' =
                        IF pending_changes = {} THEN now ELSE batchStart
                   /\ pc' = [pc EXCEPT !["observer"] = "q_time"]
              ELSE UNCHANGED << pending_changes, batchStart, pc >>
    /\ UNCHANGED << now, tree, guardianFile, guardian_path, last_update,
                    changes, mainWake, fsOps >>

\* _queue_update, lines 158-160: the debounce test.
QueueUpdateCheck ==
    /\ UNCHANGED nonWatcherVars
    /\ UNCHANGED unflushed
    /\ pc["observer"] = "q_time"
    /\ pc' = [pc EXCEPT !["observer"] =
                IF now - last_update > DEBOUNCE_TIME THEN "du_164" ELSE "idle"]
    /\ burst' = IF now - last_update > DEBOUNCE_TIME
                THEN BurstAfterCall("observer") ELSE burst
    /\ UNCHANGED << now, tree, guardianFile, guardian_path, eventQueue,
                    _file_hashes, pending_changes, last_update, changes,
                    mainWake, fsOps, batchStart >>

(***************************************************************************)
(* The main thread: watch()'s loop, time.sleep(1) then handler.flush().    *)
(***************************************************************************)
Flush_without_update ==
    /\ UNCHANGED nonWatcherVars
    /\ UNCHANGED unflushed
    /\ pc["main"] = "sleep"
    /\ now >= mainWake
    /\ mainWake' = now + FLUSH_INTERVAL
    /\ UNCHANGED << pc, burst >>
    /\ UNCHANGED << now, tree, guardianFile, guardian_path, eventQueue,
                    _file_hashes, pending_changes, last_update, changes,
                    fsOps, batchStart >>

Flush ==
    /\ UNCHANGED nonWatcherVars
    /\ UNCHANGED unflushed
    /\ pc["main"] = "sleep"
    /\ now >= mainWake
    /\ IF pending_changes # {}
       THEN /\ pc' = [pc EXCEPT !["main"] = "du_164"]
            /\ burst' = BurstAfterCall("main")
            /\ UNCHANGED mainWake
       ELSE /\ mainWake' = now + FLUSH_INTERVAL
            /\ UNCHANGED << pc, burst >>
    /\ UNCHANGED << now, tree, guardianFile, guardian_path, eventQueue,
                    _file_hashes, pending_changes, last_update, changes,
                    fsOps, batchStart >>

(***************************************************************************)
(* _do_update, one statement per step, run by either thread.               *)
(***************************************************************************)
\* Where thread t continues when its _do_update call returns.
Returned(t) == IF t = "main" THEN "sleep" ELSE "idle"

Return(t) ==
    /\ pc' = [pc EXCEPT ![t] = Returned(t)]
    /\ mainWake' = IF t = "main" THEN now + FLUSH_INTERVAL ELSE mainWake

\* line 164: if not self.pending_changes: return
DoUpdateEnter(t) ==
    /\ UNCHANGED nonWatcherVars
    /\ UNCHANGED unflushed
    /\ pc[t] = "du_164"
    /\ IF pending_changes = {}
       THEN Return(t)
       ELSE pc' = [pc EXCEPT ![t] = "du_167"] /\ UNCHANGED mainWake
    /\ UNCHANGED << now, tree, guardianFile, guardian_path, eventQueue,
                    _file_hashes, pending_changes, last_update, changes,
                    fsOps, batchStart, burst >>

\* line 167: changes = list(self.pending_changes)
DoUpdateCopy(t) ==
    /\ UNCHANGED nonWatcherVars
    /\ pc[t] = "du_167"
    /\ changes' = [changes EXCEPT ![t] = pending_changes]
    /\ unflushed' = unflushed \ { e[2] : e \in pending_changes }
    /\ pc' = [pc EXCEPT ![t] = "du_168"]
    /\ UNCHANGED << now, tree, guardianFile, guardian_path, eventQueue,
                    _file_hashes, pending_changes, last_update, mainWake,
                    fsOps, batchStart, burst >>

\* line 168: self.pending_changes.clear()
DoUpdateClear(t) ==
    /\ UNCHANGED nonWatcherVars
    /\ UNCHANGED unflushed
    /\ pc[t] = "du_168"
    /\ pending_changes' = {}
    /\ batchStart' = 0
    /\ pc' = [pc EXCEPT ![t] = "du_169"]
    /\ UNCHANGED << now, tree, guardianFile, guardian_path, eventQueue,
                    _file_hashes, last_update, changes, mainWake, fsOps,
                    burst >>

\* line 169: self.last_update = time.time(); then the try block is entered.
DoUpdateStamp(t) ==
    /\ UNCHANGED nonWatcherVars
    /\ UNCHANGED unflushed
    /\ pc[t] = "du_169"
    /\ last_update' = now
    /\ pc' = [pc EXCEPT ![t] = "du_scan"]
    /\ burst' = IF burst.ok THEN [burst EXCEPT !.scans = @ + 1] ELSE burst
    /\ UNCHANGED << now, tree, guardianFile, guardian_path, eventQueue,
                    _file_hashes, pending_changes, changes, mainWake, fsOps,
                    batchStart >>

\* lines 181-189: scan() and save() succeed; save() writes the guardian
\* file, for which the notifier emits an event.
ScanSucceed(t) ==
    /\ UNCHANGED nonWatcherVars
    /\ UNCHANGED unflushed
    /\ pc[t] = "du_scan"
    /\ guardianFile' = generate_mdc(tree, now)
    /\ eventQueue' = Append(eventQueue,
            Event(IF guardianFile = Absent THEN "created" ELSE "modified",
                  guardian_path, guardianFile = generate_mdc(tree, now)))
    /\ changes' = [changes EXCEPT ![t] = {}]
    /\ Return(t)
    /\ UNCHANGED << now, tree, guardian_path, _file_hashes, pending_changes,
                    last_update, fsOps, batchStart, burst >>

\* lines 191-192: scan() or save() raises; the handler prints the error.
ScanFail(t) ==
    /\ UNCHANGED nonWatcherVars
    /\ UNCHANGED unflushed
    /\ pc[t] = "du_scan"
    /\ changes' = [changes EXCEPT ![t] = {}]
    /\ Return(t)
    /\ UNCHANGED << now, tree, guardianFile, guardian_path, eventQueue,
                    _file_hashes, pending_changes, last_update, fsOps,
                    batchStart, burst >>

WatcherNext ==
    \/ Tick
    \/ \E p \in SourcePaths, c \in Contents : EditFile(p, c)
    \/ \E p \in SourcePaths : TouchFile(p)
    \/ \E p \in SourcePaths, c \in Contents : CreateFile(p, c)
    \/ \E p \in SourcePaths : DeleteFile(p)
    \/ Dispatch
    \/ QueueUpdateCheck
    \/ Flush
    \/ \E t \in Threads : DoUpdateEnter(t)
    \/ \E t \in Threads : DoUpdateCopy(t)
    \/ \E t \in Threads : DoUpdateClear(t)
    \/ \E t \in Threads : DoUpdateStamp(t)
    \/ \E t \in Threads : ScanSucceed(t)
    \/ \E t \in Threads : ScanFail(t)

Spec == WatcherInit /\ [][WatcherNext]_vars

(***************************************************************************)
(* Properties of the watcher                                               *)
(***************************************************************************)
Quiescent ==
    /\ eventQueue = << >>
    /\ pending_changes = {}
    /\ pc["observer"] = "idle"
    /\ pc["main"] = "sleep"

\* C1: at most one scan is in flight at any time: the observer thread and
\* the main thread are never both inside the scan+save section of _do_update.
C1_AtMostOneScanInFlight ==
    ~(InScan("observer") /\ InScan("main"))

\* C2: a batch that is flushed while a scan is running is queued: as long as
\* a scan is in flight no step takes changes out of pending_changes (they
\* wait for a scan that starts after the running one completes).
C2_BatchQueuedWhileScanRuns ==
    [][ScanInFlight => pending_changes \subseteq pending_changes']_vars

\* C3: N >= 1 content-changing modify events on one path, all handled within
\* one debounce window, produce exactly one scan: never more than one is
\* begun, and once the watcher is quiescent exactly one has been.
C3_DebounceCoalescing ==
    (burst.ok /\ burst.n >= 1) =>
        /\ burst.scans <= 1
        /\ Quiescent => burst.scans = 1

\* C4: a batch is consumed by _do_update no sooner than DEBOUNCE_TIME after
\* its first event was added to the empty pending_changes.
C4_FlushNotBeforeDebounce ==
    [][\A t \in Threads :
          (pc[t] = "du_167" /\ pc'[t] = "du_168" /\ pending_changes # {})
              => now - batchStart >= DEBOUNCE_TIME]_vars

\* The event at the head of the queue is a modify event of a watched file
\* whose bytes are what they were before the write, and still are.
NoOpModifyAtHead ==
    /\ eventQueue # << >>
    /\ Head(eventQueue).type = "modified"
    /\ Head(eventQueue).same_bytes
    /\ ~Head(eventQueue).is_directory
    /\ _should_watch(Head(eventQueue).path)
    /\ \A i \in 2..Len(eventQueue) :
          eventQueue[i].path # Head(eventQueue).path

\* C5: handling a modify event that left the bytes of a watched file as they
\* were adds nothing to pending_changes and triggers no scan.
C5_NoOpSuppression ==
    [][(Dispatch /\ NoOpModifyAtHead) =>
          (pending_changes' = pending_changes /\ pc'["observer"] = "idle")]_vars

\* C6: when the scan of a batch fails, the batch is not discarded: its
\* changes are in pending_changes after the failure (to be retried).
C6_FailedBatchStillPending ==
    [][\A t \in Threads :
          ScanFail(t) => changes[t] \subseteq pending_changes']_vars

\* C7: an event on the guardian file is never enqueued: no entry of
\* pending_changes is about guardian_path.
C7_GuardianFileNotEnqueued ==
    \A ch \in pending_changes : ch[2] # guardian_path

(***************************************************************************)
(* MindQGuardianAdapter: the change log and the guardian status            *)
(***************************************************************************)
Files == { "a.py", "b.py", "c.py" }
ChangeIds == { "CR-1", "CR-2" }
Goal == << "f", "i", "x" >>
GOAL_LIMIT == 100

\* The change requests and plans record_change is called with.
ChangeRequests ==
    { [id |-> i, goal |-> Goal, target_phases |-> << "01_ingestion" >>] :
        i \in ChangeIds }
PlanScopes == { {}, {"a.py"}, {"a.py", "b.py"}, {"b.py", "c.py"} }
Plans ==
    { [files_to_edit |-> fs, affected_kpis |-> << >>] : fs \in PlanScopes }
\* files_changed: None (the empty set here) or the list of files touched.
FilesChangedArgs == { {}, {"a.py"} }

\* A dict with no keys.
EmptyDict == << >>

\* d.get(key, default)
Get(d, key, default) == IF key \in DOMAIN d THEN d[key] ELSE default

\* s[:n]
Truncate(s, n) == SubSeq(s, 1, IF Len(s) < n THEN Len(s) ELSE n)

\* The watcher's state while only the status tracking is exercised: the
\* state GuardianWatcher.__init__ leaves for an empty project.
WatcherOff ==
    /\ now = StartTime
    /\ tree = [p \in SourcePaths |-> Absent]
    /\ guardian_path = DefaultGuardianPath
    /\ guardianFile = Absent
    /\ eventQueue = << >>
    /\ _file_hashes = << >>
    /\ pending_changes = {}
    /\ last_update = 0
    /\ pc = [t \in Threads |-> IF t = "main" THEN "sleep" ELSE "idle"]
    /\ changes = [t \in Threads |-> {}]
    /\ mainWake = StartTime + FLUSH_INTERVAL
    /\ fsOps = 0
    /\ batchStart = 0
    /\ burst = [ok |-> TRUE, n |-> 0, first |-> 0, scans |-> 0, paths |-> {}]
    /\ unflushed = {}

StatusInit ==
    /\ changesFile = [exists |-> FALSE, changes |-> << >>]
    /\ workingDiff \in SUBSET Files
    /\ status = NoStatus
    /\ changesCorrupt = FALSE
    /\ gitOutcome = "ok"
    /\ WatcherOff
    /\ ScannerOff /\ HealthOff /\ SimilarityOff /\ ClassifierOff
    /\ ExtractOff
    /\ DuplicateOff
    /\ SizeOff
    /\ SkipOff
    /\ MemoryOff

\* record_change: load the log (an empty list when the file is missing),
\* append the record, write the log back.  On a file that json.load cannot
\* parse the call raises before it writes anything.
ChangeRecord(change_request, plan, files_changed) ==
    [id |-> change_request.id,
     goal |-> change_request.goal,
     target_phases |-> change_request.target_phases,
     files_planned |-> plan.files_to_edit,
     files_changed |-> files_changed,
     affected_kpis |-> plan.affected_kpis,
     status |-> IF files_changed # {} THEN "completed" ELSE "planned"]

\* A record_change that, on completion of a change request already in the
\* log, attaches files_changed to the stored record instead of appending.
record_change_attaching(change_request, plan, files_changed) ==
    /\ Len(changesFile.changes) < MaxLog
    /\ ~changesCorrupt
    /\ changesFile' =
          [exists |-> TRUE,
           changes |->
              IF /\ files_changed # {}
                 /\ \E i \in 1..Len(changesFile.changes) :
                       changesFile.changes[i].id = change_request.id
              THEN [i \in 1..Len(changesFile.changes) |->
                      IF changesFile.changes[i].id = change_request.id
                      THEN [changesFile.changes[i]
                              EXCEPT !.files_changed = files_changed,
                                     !.status = "completed"]
                      ELSE changesFile.changes[i]]
              ELSE Append(changesFile.changes,
                          ChangeRecord(change_request, plan, files_changed))]
    /\ status' = NoStatus
    /\ gitOutcome' = "ok"
    /\ UNCHANGED << workingDiff, changesCorrupt >>
    /\ UNCHANGED nonStatusVars

record_change(change_request, plan, files_changed) ==
    /\ Len(changesFile.changes) < MaxLog
    /\ ~changesCorrupt
    /\ changesFile' =
          [exists |-> TRUE,
           changes |-> Append(IF changesFile.exists
                              THEN changesFile.changes ELSE << >>,
                              ChangeRecord(change_request, plan, files_changed))]
    /\ status' = NoStatus
    /\ gitOutcome' = "ok"
    /\ UNCHANGED << workingDiff, changesCorrupt >>
    /\ UNCHANGED nonStatusVars

\* A record_change call is cut short while it writes the log back (lines
\* 1014-1015): the records written so far are followed by a partial one.
record_change_truncated ==
    /\ changesFile.exists
    /\ Len(changesFile.changes) > 0
    /\ ~changesCorrupt
    /\ changesCorrupt' = TRUE
    /\ status' = NoStatus
    /\ gitOutcome' = "ok"
    /\ UNCHANGED << changesFile, workingDiff >>
    /\ UNCHANGED nonStatusVars

\* The working tree changes: a file starts or stops differing from HEAD.
ChangeWorkingTree(f) ==
    /\ workingDiff' = IF f \in workingDiff
                      THEN workingDiff \ {f} ELSE workingDiff \cup {f}
    /\ status' = NoStatus
    /\ gitOutcome' = "ok"
    /\ UNCHANGED << changesFile, changesCorrupt >>
    /\ UNCHANGED nonStatusVars

\* _load_last_change_record: json.load raises JSONDecodeError on a file with
\* a partial record, which the except clause turns into None.
_load_last_change_record ==
    IF ~changesFile.exists THEN None
    ELSE IF changesCorrupt THEN None
    ELSE IF Len(changesFile.changes) > 0
         THEN changesFile.changes[Len(changesFile.changes)]
         ELSE None

\* How subprocess.run(["git", "diff", "--name-only", "HEAD"], timeout=5)
\* can end: exit code 0, git not installed (FileNotFoundError), a non-zero
\* exit code, TimeoutExpired, another SubprocessError.
GitOutcomes == { "ok", "not_found", "nonzero", "timeout", "subprocess_error" }

\* get_changed_files: the paths git prints, each once; the empty list when
\* the call did not end with exit code 0.
get_changed_files_propagating(outcome) == workingDiff
get_changed_files(outcome) == IF outcome = "ok" THEN workingDiff ELSE {}

\* The planned files scan_guardian_status reads from the last record.
PlannedFilesRead(last_change) ==
    Get(Get(last_change, "plan", EmptyDict), "files_to_edit", {})

\* scan_guardian_status, lines 1422-1465
MindQStatus(last_change, changed_files) ==
    IF changed_files = {}
    THEN [status |-> "NO_CHANGES", last_goal |-> << >>,
          target_phases |-> << >>,
          planned_files_count |-> 0, extra_files_count |-> 0]
    ELSE IF last_change = None
    THEN [status |-> "NO_PLAN_FOR_CHANGES", last_goal |-> << >>,
          target_phases |-> << >>,
          planned_files_count |-> 0,
          extra_files_count |-> Cardinality(changed_files)]
    ELSE LET planned_files == PlannedFilesRead(last_change)
             planned_count == Cardinality(changed_files \cap planned_files)
             extra_count == Cardinality(changed_files \ planned_files)
         IN  [status |-> IF extra_count > 0
                         THEN "PLAN_VIOLATIONS" ELSE "ON_TRACK",
              last_goal |-> Truncate(Get(last_change, "goal", << >>), GOAL_LIMIT),
              target_phases |-> Get(last_change, "target_phases", << >>),
              planned_files_count |-> planned_count,
              extra_files_count |-> extra_count]

scan_guardian_status ==
    /\ \E outcome \in GitOutcomes :
          /\ gitOutcome' = outcome
          /\ status' = MindQStatus(_load_last_change_record,
                                   get_changed_files(outcome))
    /\ UNCHANGED << changesFile, workingDiff, changesCorrupt >>
    /\ UNCHANGED nonStatusVars

StatusNext ==
    \/ \E cr \in ChangeRequests, plan \in Plans, fc \in FilesChangedArgs :
          record_change(cr, plan, fc)
    \/ record_change_truncated
    \/ \E f \in Files : ChangeWorkingTree(f)
    \/ scan_guardian_status

SpecStatus == StatusInit /\ [][StatusNext]_vars

(***************************************************************************)
(* Properties of the guardian status                                       *)
(***************************************************************************)
StatusCurrent == status # NoStatus

\* actualChangedFiles: what the VCS query of the current status gave.
ActualChanged == get_changed_files(gitOutcome)

\* Whether a plan is recorded, and the scope of the latest recorded plan:
\* the files_to_edit of the plan given to the last record_change.
HasRecordedPlan ==
    changesFile.exists /\ Len(changesFile.changes) > 0 /\ ~changesCorrupt
PlannedScope ==
    IF HasRecordedPlan
    THEN changesFile.changes[Len(changesFile.changes)].files_planned
    ELSE {}

\* The four-way classification, first match wins.
Classification ==
    IF ActualChanged = {} THEN "NO_CHANGES"
    ELSE IF ~HasRecordedPlan THEN "NO_PLAN_FOR_CHANGES"
    ELSE IF ActualChanged \ PlannedScope # {} THEN "PLAN_VIOLATIONS"
    ELSE "ON_TRACK"

\* C8: the status returned is the first match of: no changed files =>
\* NO_CHANGES; no recorded plan => NO_PLAN_FOR_CHANGES with extraCount the
\* number of changed files; a changed file outside the planned scope =>
\* PLAN_VIOLATIONS; otherwise ON_TRACK.
C8_ClassificationOrder ==
    StatusCurrent =>
        /\ status.status = Classification
        /\ status.status = "NO_PLAN_FOR_CHANGES" =>
              status.extra_files_count = Cardinality(ActualChanged)

\* C9: with a recorded plan of scope P and a non-empty diff A, the status is
\* ON_TRACK iff A is a subset of P, and otherwise PLAN_VIOLATIONS with
\* extraCount = |A \ P| (scope {a.py, b.py}: diff {a.py} is ON_TRACK, diff
\* {a.py, c.py} is PLAN_VIOLATIONS with extraCount 1).
C9_OnTrackIffWithinScope ==
    (StatusCurrent /\ HasRecordedPlan /\ ActualChanged # {}) =>
        /\ status.status = "ON_TRACK" <=> ActualChanged \subseteq PlannedScope
        /\ status.status = "PLAN_VIOLATIONS" =>
              status.extra_files_count = Cardinality(ActualChanged \ PlannedScope)

\* The status code as a function of (hasActualChanges, hasRecordedPlan,
\* extraCount).
CodeOf(hasChanges, hasPlan, extraCount) ==
    IF ~hasChanges THEN "NO_CHANGES"
    ELSE IF ~hasPlan THEN "NO_PLAN_FOR_CHANGES"
    ELSE IF extraCount > 0 THEN "PLAN_VIOLATIONS"
    ELSE "ON_TRACK"

\* C10: extraCount = |actualChanged \ plannedScope|, plannedCount =
\* |actualChanged \cap plannedScope|, and the status code is a function of
\* (hasActualChanges, hasRecordedPlan, extraCount).
C10_CountsAndPureStatus ==
    StatusCurrent =>
        /\ status.extra_files_count = Cardinality(ActualChanged \ PlannedScope)
        /\ status.planned_files_count =
              Cardinality(ActualChanged \cap PlannedScope)
        /\ status.status =
              CodeOf(ActualChanged # {}, HasRecordedPlan, status.extra_files_count)

\* C11: when the VCS diff query fails (git missing, non-zero exit, timeout,
\* subprocess error) get_changed_files yields the empty set and the status
\* is NO_CHANGES with both counts 0, whatever the change log holds.
C11_VcsFailureGivesNoChanges ==
    (StatusCurrent /\ gitOutcome # "ok") =>
        /\ ActualChanged = {}
        /\ status.status = "NO_CHANGES"
        /\ status.planned_files_count = 0
        /\ status.extra_files_count = 0

\* A status computed after a timed-out git call, with files changed in the
\* working tree and a plan on record.
C11_Witness ==
    /\ StatusCurrent
    /\ gitOutcome = "timeout"
    /\ workingDiff # {}
    /\ HasRecordedPlan

\* The log after a step keeps every record it had, in order and unchanged.
RecordsKept ==
    \A i \in 1..Len(changesFile.changes) :
        /\ i <= Len(changesFile.changes')
        /\ changesFile.changes'[i] = changesFile.changes[i]

\* The same, except that a record may have got its files_changed attached.
RecordsKeptUpToAttach ==
    \A i \in 1..Len(changesFile.changes) :
        /\ i <= Len(changesFile.changes')
        /\ \E fc \in FilesChangedArgs :
              changesFile.changes'[i] \in
                 { changesFile.changes[i],
                   [changesFile.changes[i] EXCEPT !.files_changed = fc,
                                                  !.status = "completed"] }

\* No completion record stands beside an earlier record of the same id.
CompletionMerged ==
    \A i, j \in 1..Len(changesFile.changes) :
        (i < j /\ changesFile.changes[j].status = "completed")
            => changesFile.changes[i].id # changesFile.changes[j].id

\* C16 as stated: stored records stay, in order, unchanged except for an
\* attached files_changed, and completing a plan attaches files_changed to
\* the plan's record, so that the plan's id identifies one record.
C16_CompletionAttachesToRecord ==
    [][RecordsKeptUpToAttach /\ CompletionMerged']_vars

\* C16 amended: the log is append-only: every step keeps all stored records
\* in order and unchanged, and each record_change appends exactly one record
\* (a completion too, as a new record with the id of the plan).
C16_AppendOnly ==
    [][/\ RecordsKept
       /\ changesFile' # changesFile =>
             Len(changesFile.changes') = Len(changesFile.changes) + 1]_vars

\* A plan and its completion, recorded one after the other under one id.
C16_Witness ==
    /\ Len(changesFile.changes) = 2
    /\ changesFile.changes[1].id = changesFile.changes[2].id
    /\ changesFile.changes[1].status = "planned"
    /\ changesFile.changes[2].status = "completed"

\* C17: when the log ends in a partial record, the status is computed
\* against the last intact plan and not as if no plan existed.
C17_PartialReadRecovery ==
    (StatusCurrent /\ changesCorrupt /\ Len(changesFile.changes) > 0
       /\ ActualChanged # {}) =>
        /\ status.status \in {"PLAN_VIOLATIONS", "ON_TRACK"}
        /\ status.last_goal =
              Truncate(changesFile.changes[Len(changesFile.changes)].goal,
                       GOAL_LIMIT)

(***************************************************************************)
(* The pending batch and the hash store under interleaving                 *)
(***************************************************************************)
\* Thread t executes line 168 (the clear) in this step.
ClearStep(t) == pc[t] = "du_168" /\ pc'[t] = "du_169"

\* Thread t executes line 167 (the copy) in this step.
CopyStep(t) == pc[t] = "du_167" /\ pc'[t] = "du_168"

\* Every entry the clear removes is in the batch the same call copied.
NoChangeLost ==
    \A t \in Threads : ClearStep(t) => pending_changes \subseteq changes[t]

\* No entry is copied into a batch while the other call's batch holds it.
NoChangeTwice ==
    \A t \in Threads : CopyStep(t) =>
        \A u \in Threads \ {t} :
            InDoUpdate(u) => changes[u] \cap pending_changes = {}

\* C19: under any interleaving of _do_update (copy, then clear) with
\* _queue_update, every change added to pending_changes is delivered in
\* exactly one flushed batch: none is lost between copy and clear, none is
\* delivered twice.
C19_BatchClearedAtomically == [][NoChangeLost /\ NoChangeTwice]_vars

\* The guardian file on disk was generated from a tree holding, at path p,
\* the bytes whose digest the hash store holds for p.
Scanned(p) ==
    /\ guardianFile # Absent
    /\ p \in DOMAIN guardianFile[3]
    /\ guardianFile[3][p] # Absent
    /\ Md5(guardianFile[3][p]) = HashGet(p)

\* C20: the hash store never holds the digest of a content version whose
\* change has neither been flushed to a scan (copied into a batch, taken in
\* by a written scan, or about to be read by a _do_update call under way)
\* nor is still pending.
C20_HashOnlyForFlushedOrPending ==
    \A p \in SourcePaths :
        (HashGet(p) # EmptyHash /\ p \in unflushed) =>
            \/ \E e \in pending_changes : e[2] = p
            \/ \E t \in Threads : InDoUpdate(t)
            \/ Scanned(p)

(***************************************************************************)
(* The event handlers on their own: GuardianWatcher driven by the observer *)
(* thread only (flush() is never called), receiving, besides the events of *)
(* the source files, events the handlers are to ignore.                    *)
(***************************************************************************)
\* A compiled file next to the source, a file of an installed package, and
\* a directory whose name ends like a watched file's.
StrayPaths ==
    { [dirs |-> <<"src">>, name |-> <<"a","p","p",".","p","y","c">>],
      [dirs |-> <<"node_modules">>, name |-> AppName],
      [dirs |-> <<"src">>, name |-> <<"c","h","a","r","t",".","j","s">>] }

\* The events the notifier emits for them; the third path is a directory.
StrayEvents ==
    { [type |-> ty, path |-> p, same_bytes |-> FALSE,
       is_directory |-> (p.name = <<"c","h","a","r","t",".","j","s">>)] :
        ty \in {"created", "modified", "deleted"}, p \in StrayPaths }

\* Something happens to one of these paths: the notifier emits its event.
StrayEvent(e) ==
    /\ FsGuard
    /\ eventQueue' = Append(eventQueue, e)
    /\ fsOps' = fsOps + 1
    /\ UNCHANGED tree
    /\ FsFrame

EventsNext ==
    \/ \E p \in SourcePaths, c \in Contents : EditFile(p, c)
    \/ \E p \in SourcePaths : TouchFile(p)
    \/ \E p \in SourcePaths, c \in Contents : CreateFile(p, c)
    \/ \E p \in SourcePaths : DeleteFile(p)
    \/ \E e \in StrayEvents : StrayEvent(e)
    \/ Dispatch
    \/ QueueUpdateCheck
    \/ DoUpdateEnter("observer")
    \/ DoUpdateCopy("observer")
    \/ DoUpdateClear("observer")
    \/ DoUpdateStamp("observer")
    \/ ScanSucceed("observer")
    \/ ScanFail("observer")

SpecEvents == WatcherInit /\ [][EventsNext]_vars

\* The event is one the handlers are to ignore: a directory event, a path
\* whose extension is not watched, or a path below an ignored directory.
Filtered(e) ==
    \/ e.is_directory
    \/ Lower(Suffix(e.path.name)) \notin WATCH_EXTENSIONS
    \/ \E k \in 1..Len(DirParts(e.path)) : DirParts(e.path)[k] \in IGNORE_DIRS

\* C21: the handler of a created, modified or deleted event that is a
\* directory event, or whose path has an extension outside WATCH_EXTENSIONS
\* or a component in IGNORE_DIRS, changes neither pending_changes nor
\* _file_hashes nor last_update, and calls neither _queue_update nor
\* _do_update (the observer thread is idle again, no scan begun).
C21_FilteredEventLeavesState ==
    [][(Dispatch /\ Filtered(Head(eventQueue))) =>
          /\ pending_changes' = pending_changes
          /\ _file_hashes' = _file_hashes
          /\ last_update' = last_update
          /\ pc' = pc]_vars

\* More events were emitted than are waiting, so one at least was handled;
\* no scan was begun, so the user's operations emitted them all; and the
\* burst record is as __init__ left it, which every handler that gets past
\* the filter changes: every event handled so far was filtered.  One more
\* that is to be ignored is next.
C21_Witness ==
    /\ fsOps > Len(eventQueue)
    /\ last_update = 0
    /\ burst = [ok |-> TRUE, n |-> 0, first |-> 0, scans |-> 0, paths |-> {}]
    /\ _file_hashes = << >>
    /\ pending_changes = {}
    /\ eventQueue # << >>
    /\ Filtered(Head(eventQueue))
    /\ ~Head(eventQueue).is_directory
    /\ Lower(Suffix(Head(eventQueue).path.name)) \in WATCH_EXTENSIONS

(***************************************************************************)
(* ChangeClassifier (guardian_mcp.py)                                      *)
(* A string is the sequence of its characters; a character outside ASCII   *)
(* is written as its code point ("u0644").  The texts of CLASSIFICATIONS,  *)
(* which are never searched, keep their ASCII part as one string.          *)
(***************************************************************************)
MaxWords == 2

CLASSIFICATIONS ==
    [PURE_UI_STYLE |->
        [description |-> << "Visual-only changes: colors, spacing, fonts, text" >>,
         rules |-> << << "u2705", " Only touch CSS/styling and text" >>,
                   << "u274c", " Do NOT create or delete files" >>,
                   << "u274c", " Do NOT change logic or state" >> >>],
     UI_BEHAVIOUR_TWEAK |->
        [description |-> << "Change when/how something happens" >>,
         rules |-> << << "u2705", " Edit existing components/functions" >>,
                   << "u2705", " Reuse existing patterns" >>,
                   << "u274c", " Do NOT add new pages/routes" >>,
                   << "u274c", " Limit changes to minimum files" >> >>],
     NEW_FEATURE_FLOW |->
        [description |-> << "New screen, route, or user flow" >>,
         rules |-> << << "u2705", " Can create new files" >>,
                   << "u2705", " Confirm design first" >>,
                   << "u2705", " Update guardian file after" >> >>]]

UI_STYLE_KEYWORDS ==
    << << "c", "o", "l", "o", "r" >>,
       << "u0644", "u0648", "u0646" >>,
       << "c", "o", "l", "o", "u", "r" >>,
       << "s", "i", "z", "e" >>,
       << "u062d", "u062c", "u0645" >>,
       << "f", "o", "n", "t" >>,
       << "u062e", "u0637" >>,
       << "s", "p", "a", "c", "i", "n", "g" >>,
       << "p", "a", "d", "d", "i", "n", "g" >>,
       << "m", "a", "r", "g", "i", "n" >>,
       << "t", "e", "x", "t" >>,
       << "u0646", "u0635" >>,
       << "b", "i", "g", "g", "e", "r" >>,
       << "u0623", "u0643", "u0628", "u0631" >>,
       << "s", "m", "a", "l", "l", "e", "r" >>,
       << "u0623", "u0635", "u063a", "u0631" >>,
       << "s", "t", "y", "l", "e" >>,
       << "c", "s", "s" >>,
       << "a", "l", "i", "g", "n" >>,
       << "u0645", "u062d", "u0627", "u0630", "u0627", "u0629" >>,
       << "b", "l", "u", "e" >>,
       << "u0623", "u0632", "u0631", "u0642" >>,
       << "r", "e", "d" >>,
       << "u0623", "u062d", "u0645", "u0631" >> >>

UI_BEHAVIOUR_KEYWORDS ==
    << << "t", "o", "a", "s", "t" >>,
       << "m", "e", "s", "s", "a", "g", "e" >>,
       << "u0631", "u0633", "u0627", "u0644", "u0629" >>,
       << "v", "a", "l", "i", "d", "a", "t", "i", "o", "n" >>,
       << "u062a", "u062d", "u0642", "u0642" >>,
       << "e", "r", "r", "o", "r" >>,
       << "u062e", "u0637", "u0623" >>,
       << "c", "o", "n", "d", "i", "t", "i", "o", "n" >>,
       << "u0634", "u0631", "u0637" >>,
       << "u0646", "u062c", "u0627", "u062d" >>,
       << "s", "u", "c", "c", "e", "s", "s" >>,
       << "a", "l", "e", "r", "t" >>,
       << "u062a", "u0646", "u0628", "u064a", "u0647" >>,
       << "e", "n", "a", "b", "l", "e" >>,
       << "d", "i", "s", "a", "b", "l", "e" >>,
       << "s", "h", "o", "w" >>,
       << "h", "i", "d", "e" >>,
       << "w", "h", "e", "n" >>,
       << "i", "f" >>,
       << "u0639", "u0646", "u062f", "u0645", "u0627" >> >>

NEW_FEATURE_KEYWORDS ==
    << << "p", "a", "g", "e" >>,
       << "u0635", "u0641", "u062d", "u0629" >>,
       << "s", "c", "r", "e", "e", "n" >>,
       << "u0634", "u0627", "u0634", "u0629" >>,
       << "f", "e", "a", "t", "u", "r", "e" >>,
       << "u0645", "u064a", "u0632", "u0629" >>,
       << "s", "y", "s", "t", "e", "m" >>,
       << "u0646", "u0638", "u0627", "u0645" >>,
       << "i", "n", "t", "e", "g", "r", "a", "t", "i", "o", "n" >>,
       << "d", "a", "s", "h", "b", "o", "a", "r", "d" >>,
       << "u0644", "u0648", "u062d", "u0629" >>,
       << "a", "u", "t", "h", "e", "n", "t", "i", "c", "a", "t", "i", "o", "n" >>,
       << "a", "u", "t", "h" >>,
       << "l", "o", "g", "i", "n" >>,
       << "u062a", "u0633", "u062c", "u064a", "u0644" >> >>

\* The words requests are made of: with and without keywords of each table,
\* in upper and lower case, and with a keyword inside a longer word.
Vocabulary ==
    { << "C", "o", "l", "o", "r" >>,
      << "c", "o", "n", "t", "e", "x", "t" >>,
      << "p", "a", "g", "e" >>,
      << "L", "o", "g", "i", "n" >>,
      << "t", "o", "a", "s", "t" >>,
      << "b", "u", "t", "t", "o", "n" >>,
      << "u0644", "u0648", "u0646" >>,
      << "u0635", "u0641", "u062d", "u0629" >> }

\* " ".join(words)
RECURSIVE Join(_)
Join(words) ==
    IF Len(words) = 0 THEN << >>
    ELSE IF Len(words) = 1 THEN words[1]
    ELSE words[1] \o << " " >> \o Join(Tail(words))

Requests ==
    { Join(ws) : ws \in UNION { [1..n -> Vocabulary] : n \in 0..MaxWords } }

\* sum(1 for kw in keywords if kw in request_lower)
Score(keywords, request_lower) ==
    Cardinality({ i \in 1..Len(keywords) :
                    Contains(request_lower, keywords[i]) })

\* max(a, b, c, d)
Max4(a, b, c, d) ==
    CHOOSE m \in {a, b, c, d} : \A x \in {a, b, c, d} : x <= m

\* The same with the new-feature table tested first.
classify_feature_first(req) ==
    LET request_lower == Lower(req)
        ui_style_score == Score(UI_STYLE_KEYWORDS, request_lower)
        ui_behaviour_score == Score(UI_BEHAVIOUR_KEYWORDS, request_lower)
        new_feature_score == Score(NEW_FEATURE_KEYWORDS, request_lower)
        classification ==
            IF new_feature_score > 0 THEN "NEW_FEATURE_FLOW"
            ELSE IF ui_style_score > 0 THEN "PURE_UI_STYLE"
            ELSE "UI_BEHAVIOUR_TWEAK"
    IN  [classification |-> classification,
         confidence |->
            [num |-> Max4(ui_style_score, ui_behaviour_score,
                          new_feature_score, 1),
             den |-> 3],
         description |-> CLASSIFICATIONS[classification].description,
         rules |-> CLASSIFICATIONS[classification].rules]

\* ChangeClassifier.classify; confidence is the quotient num / den.
classify(req) ==
    LET request_lower == Lower(req)
        ui_style_score == Score(UI_STYLE_KEYWORDS, request_lower)
        ui_behaviour_score == Score(UI_BEHAVIOUR_KEYWORDS, request_lower)
        new_feature_score == Score(NEW_FEATURE_KEYWORDS, request_lower)
        classification ==
            IF ui_style_score > 0 THEN "PURE_UI_STYLE"
            ELSE IF new_feature_score > 0 THEN "NEW_FEATURE_FLOW"
            ELSE IF ui_behaviour_score > 0 THEN "UI_BEHAVIOUR_TWEAK"
            ELSE "UI_BEHAVIOUR_TWEAK"
    IN  [classification |-> classification,
         confidence |->
            [num |-> Max4(ui_style_score, ui_behaviour_score,
                          new_feature_score, 1),
             den |-> 3],
         description |-> CLASSIFICATIONS[classification].description,
         rules |-> CLASSIFICATIONS[classification].rules]

ClassifierInit ==
    /\ request \in Requests
    /\ classified = None
    /\ WatcherOff /\ StatusOff
    /\ ScannerOff /\ HealthOff /\ SimilarityOff
    /\ ExtractOff
    /\ DuplicateOff
    /\ SizeOff
    /\ SkipOff
    /\ MemoryOff

\* classify_change(request)
classify_change ==
    /\ classified = None
    /\ classified' = classify(request)
    /\ UNCHANGED request
    /\ UNCHANGED nonClassifierVars

SpecClassifier == ClassifierInit /\ [][classify_change]_vars

\* request, lower-cased, contains some keyword of the table.
HasKeyword(keywords) ==
    \E i \in 1..Len(keywords) : Contains(Lower(request), keywords[i])

MaxDead == 2
MaxDup == 2
MaxViolations == 12

Severities == << "error", "warning", "info" >>

\* n copies of x, as a list.
Repeat(x, n) == [i \in 1..n |-> x]

\* The lists of findings a quality scan hands to _generate_summary: dead
\* code findings with their file, duplicate pairs, and violations with
\* their severity (listed by severity; the score does not look at order).
DeadCodeLists ==
    UNION { [1..n -> { [file_path |-> f] : f \in {"a.py", "b.py"} }] :
              n \in 0..MaxDead }

DuplicateLists == { Repeat([file1 |-> "a.py", file2 |-> "b.py"], n) :
                      n \in 0..MaxDup }

ViolationLists ==
    { vs \in { Repeat([severity |-> Severities[1]], e)
                 \o Repeat([severity |-> Severities[2]], w)
                 \o Repeat([severity |-> Severities[3]], i) :
                 e \in 0..MaxViolations, w \in 0..MaxViolations,
                 i \in 0..MaxViolations } :
        Len(vs) <= MaxViolations }

\* sum(numbers)
RECURSIVE Sum(_)
Sum(numbers) ==
    IF numbers = << >> THEN 0 ELSE Head(numbers) + Sum(Tail(numbers))

\* 10 if v.severity == "error" else 3 if v.severity == "warning" else 1
Deduction(v) ==
    IF v.severity = "error" THEN 10
    ELSE IF v.severity = "warning" THEN 3 ELSE 1

Min2(a, b) == IF a <= b THEN a ELSE b
Max2(a, b) == IF a >= b THEN a ELSE b

\* The score as deducted, returned without max(0, min(100, score)).
_calculate_health_score_unclamped(dead, dups, viols) ==
    100 - Len(dead) * 2 - Len(dups) * 5
        - Sum([i \in 1..Len(viols) |-> Deduction(viols[i])])

\* _calculate_health_score
_calculate_health_score(dead, dups, viols) ==
    LET score ==
            100 - Len(dead) * 2 - Len(dups) * 5
                - Sum([i \in 1..Len(viols) |-> Deduction(viols[i])])
    IN  Max2(0, Min2(100, score))

IsError(v) == IF v.severity = "error" THEN 1 ELSE 0
IsWarning(v) == IF v.severity = "warning" THEN 1 ELSE 0

\* _generate_summary
_generate_summary(dead, dups, viols) ==
    [total_issues |-> Len(dead) + Len(dups) + Len(viols),
     critical |-> Sum([i \in 1..Len(viols) |-> IsError(viols[i])]),
     warnings |-> Sum([i \in 1..Len(viols) |-> IsWarning(viols[i])]),
     dead_code_files |->
        Cardinality({ dead[i].file_path : i \in 1..Len(dead) }),
     duplicate_pairs |-> Len(dups),
     health_score |-> _calculate_health_score(dead, dups, viols)]

HealthInit ==
    /\ dead_code \in DeadCodeLists
    /\ duplicates \in DuplicateLists
    /\ violations \in ViolationLists
    /\ summary = None
    /\ WatcherOff /\ StatusOff
    /\ ScannerOff /\ SimilarityOff /\ ClassifierOff
    /\ ExtractOff
    /\ DuplicateOff
    /\ SizeOff
    /\ SkipOff
    /\ MemoryOff

\* run_full_scan, from the findings to the summary of its report.
run_full_scan ==
    /\ summary = None
    /\ summary' = _generate_summary(dead_code, duplicates, violations)
    /\ UNCHANGED << dead_code, duplicates, violations >>
    /\ UNCHANGED nonHealthVars

SpecHealth == HealthInit /\ [][run_full_scan]_vars

\* Number of violations of the severity.
CountSeverity(sev) ==
    Cardinality({ i \in 1..Len(violations) : violations[i].severity = sev })

\* 100 - 2*D - 5*P - (10*E + 3*W + 1*I)
RawScore ==
    100 - 2 * Len(dead_code) - 5 * Len(duplicates)
        - (10 * CountSeverity("error") + 3 * CountSeverity("warning")
             + 1 * CountSeverity("info"))

\* C14: the health score is clamp(100 - 2*D - 5*P - (10*E + 3*W + 1*I), 0,
\* 100); zero findings give 100, one dead-code finding alone gives 98, one
\* duplicate pair alone gives 95; the score is an integer in [0, 100].
C14_HealthScore ==
    summary # None =>
        /\ summary.health_score =
              IF RawScore < 0 THEN 0
              ELSE IF RawScore > 100 THEN 100 ELSE RawScore
        /\ summary.health_score \in 0..100
        /\ (Len(dead_code) = 0 /\ Len(duplicates) = 0 /\ Len(violations) = 0)
              => summary.health_score = 100
        /\ (Len(dead_code) = 1 /\ Len(duplicates) = 0 /\ Len(violations) = 0)
              => summary.health_score = 98
        /\ (Len(dead_code) = 0 /\ Len(duplicates) = 1 /\ Len(violations) = 0)
              => summary.health_score = 95

\* A summary of findings whose deductions exceed 100, with violations of
\* all three severities.
C14_Witness ==
    /\ summary # None
    /\ RawScore < 0
    /\ summary.health_score = 0
    /\ \A k \in 1..3 : CountSeverity(Severities[k]) > 0

(***************************************************************************)
(* DuplicateFinder._calculate_similarity (quality_control.py)              *)
(* A file's text is the sequence of its characters, "\n" among them.       *)
(***************************************************************************)
MaxLines == 10

Newline == "\n"
Letters == << "a", "b", "c", "d", "e", "f", "g", "h", "i", "j", "k", "l" >>

\* A file that read_text() cannot read.
Unreadable == [readable |-> FALSE]
TextFile(text) == [readable |-> TRUE, text |-> text]

\* "\n".join(lines)
RECURSIVE JoinLines(_)
JoinLines(lines) ==
    IF Len(lines) = 0 THEN << >>
    ELSE IF Len(lines) = 1 THEN lines[1]
    ELSE lines[1] \o << Newline >> \o JoinLines(Tail(lines))

\* text.split('\n')
RECURSIVE Split(_)
Split(text) ==
    LET breaks == { i \in 1..Len(text) : text[i] = Newline }
    IN  IF breaks = {} THEN << text >>
        ELSE LET i == CHOOSE b \in breaks : \A c \in breaks : b <= c
             IN  << SubSeq(text, 1, i - 1) >>
                   \o Split(SubSeq(text, i + 1, Len(text)))

\* The line lists of the first file: n different one-letter lines, or the
\* same with the last line repeating the first.
LineLists ==
    { [i \in 1..n |-> << Letters[i] >>] : n \in 1..MaxLines }
      \cup { [i \in 1..n |-> << Letters[IF i = n THEN 1 ELSE i] >>] :
               n \in 2..MaxLines }

\* The line lists of the second file: those of the first, or those with one
\* line replaced, by a line of the first file or by a line new to it.
Variants(lines) ==
    {lines} \cup
    { [lines EXCEPT ![i] = c] :
        i \in 1..Len(lines), c \in { << "a" >>, << "z" >>, << >> } }

\* The pairs of files compared: both with or both without a final newline,
\* the second possibly unreadable.
FilePairs ==
    UNION { { << TextFile(JoinLines(l1) \o end), f2 >> :
                f2 \in { TextFile(JoinLines(l2) \o end) : l2 \in Variants(l1) }
                         \cup { Unreadable } } :
            l1 \in LineLists, end \in { << >>, << Newline >> } }

\* set(lines)
SetOf(lines) == { lines[i] : i \in 1..Len(lines) }

\* A float, as the quotient num / den.
Float(num, den) == [num |-> num, den |-> den]

\* A similarity counting the positions at which the line lists agree.
_calculate_similarity_positional(f1, f2) ==
    IF ~f1.readable \/ ~f2.readable THEN Float(0, 1)
    ELSE IF f1.text = f2.text THEN Float(1, 1)
    ELSE LET lines1 == Split(f1.text)
             lines2 == Split(f2.text)
             longest == Max2(Len(lines1), Len(lines2))
         IN  Float(Cardinality({ i \in 1..Min2(Len(lines1), Len(lines2)) :
                                   lines1[i] = lines2[i] }),
                   longest)

\* _calculate_similarity; read_text() raising is caught and gives 0.0.
_calculate_similarity(f1, f2) ==
    IF ~f1.readable \/ ~f2.readable THEN Float(0, 1)
    ELSE LET content1 == f1.text
             content2 == f2.text
         IN  IF content1 = content2 THEN Float(1, 1)
             ELSE IF Md5(content1) = Md5(content2) THEN Float(1, 1)
             ELSE LET lines1 == SetOf(Split(content1))
                      lines2 == SetOf(Split(content2))
                      common_lines == lines1 \cap lines2
                      total_lines == Cardinality(lines1 \cup lines2)
                  IN  IF lines1 = {} \/ lines2 = {} THEN Float(0, 1)
                      ELSE IF total_lines = 0 THEN Float(0, 1)
                      ELSE Float(Cardinality(common_lines), total_lines)

SimilarityInit ==
    /\ \E pair \in FilePairs : file1 = pair[1] /\ file2 = pair[2]
    /\ similarity = None
    /\ WatcherOff /\ StatusOff
    /\ ScannerOff /\ HealthOff /\ ClassifierOff
    /\ ExtractOff
    /\ DuplicateOff
    /\ SizeOff
    /\ SkipOff
    /\ MemoryOff

\* DuplicateFinder.scan, the comparison of one pair of files.
CompareFiles ==
    /\ similarity = None
    /\ similarity' = _calculate_similarity(file1, file2)
    /\ UNCHANGED << file1, file2 >>
    /\ UNCHANGED nonSimilarityVars

SpecSimilarity == SimilarityInit /\ [][CompareFiles]_vars

\* The lines of a file as an editor counts them: a final newline ends the
\* last line and begins no new one.
LinesOf(f) ==
    LET parts == Split(f.text)
    IN  IF Len(parts) > 1 /\ parts[Len(parts)] = << >>
        THEN SubSeq(parts, 1, Len(parts) - 1)
        ELSE parts

\* Both files have n lines and they differ in exactly one of them.
DifferInOneLineOf(n) ==
    /\ file1.readable /\ file2.readable
    /\ Len(LinesOf(file1)) = n /\ Len(LinesOf(file2)) = n
    /\ Cardinality({ i \in 1..n : LinesOf(file1)[i] # LinesOf(file2)[i] }) = 1

\* similarity is the quotient a / b.
SimilarityIs(a, b) == similarity.num * b = a * similarity.den

\* similarity is |A & B| / |A | B| over the sets of the pieces of the two
\* texts between newlines.
IsJaccard ==
    LET A == SetOf(Split(file1.text))
        B == SetOf(Split(file2.text))
    IN  SimilarityIs(Cardinality(A \cap B), Cardinality(A \cup B))

\* The lines of the file are pairwise different.
DistinctLines(f) ==
    Cardinality(SetOf(LinesOf(f))) = Len(LinesOf(f))

MaxScans == 3
MaxInstances == 2

\* json.loads(text) raises for a text that is not JSON.
Malformed == [kind |-> "malformed"]
NoFile == [kind |-> "absent"]
Manifest(dependencies, scripts) ==
    [kind |-> "json",
     pkg |-> [dependencies |-> dependencies, scripts |-> scripts]]

Versions ==
    { [react |-> << "^", "1", "8" >>],
      [vue |-> << "~", "3" >>, tailwindcss |-> << "3" >>] }

PackageJsons ==
    { NoFile, Malformed }
      \cup { Manifest(d, sc) :
               d \in Versions \cup { EmptyDict },
               sc \in { EmptyDict, [dev |-> "vite"] } }

\* .env.example: absent, or its text.
EnvExamples ==
    { NoFile,
      [kind |-> "text", text |-> << >>],
      [kind |-> "text",
       text |-> << "K", "E", "Y", "=", "1", Newline >>],
      [kind |-> "text",
       text |-> << "#", "k", "=", "v", Newline, "A", " ", "=", Newline,
                   "B", "=", "2" >>] }

\* The Python files: relative path, name of the parent directory and stem.
CodeFiles ==
    { [path |-> "main.py", parent |-> "proj", stem |-> "main"],
      [path |-> "services/auth.py", parent |-> "services", stem |-> "auth"] }

\* What a Python file can be: absent, unreadable (read_text() raises), text
\* that ast.parse() rejects, or text with its function names in the order
\* of ast.walk and the port numbers the port patterns find in it.
PythonFile(defs, ports) ==
    [kind |-> "python", readable |-> TRUE, parses |-> TRUE,
     defs |-> defs, ports |-> ports]
FileStates ==
    { NoFile,
      [kind |-> "python", readable |-> FALSE],
      [kind |-> "python", readable |-> TRUE, parses |-> FALSE,
       ports |-> << >>],
      PythonFile(<< << "r", "u", "n" >>, << "_", "a", "u", "x" >> >>,
                 << 99999 >>),
      PythonFile(<< << "s", "e", "r", "v", "e" >> >>, << 8000 >>) }

Projects ==
    [package_json : PackageJsons,
     env_example : EnvExamples,
     code : [{ f.path : f \in CodeFiles } -> FileStates]]

\* GuardianScanner.__init__: self.snapshot, without the fields the scan of
\* this project leaves as they are (identity, locked, danger, issues,
\* changes) and without files_by_category, which _scan_files fills by the
\* same statements as files (each entry of files names its category).
InitialSnapshot ==
    [tech_stack |-> EmptyDict,
     dependencies |-> [frontend |-> EmptyDict, backend |-> EmptyDict],
     env_vars |-> [required |-> << >>, optional |-> << >>],
     files |-> EmptyDict,
     connections |-> EmptyDict,
     run |-> EmptyDict]

\* d[key] = value
DictPut(d, key, value) ==
    [k \in (DOMAIN d) \cup {key} |-> IF k = key THEN value ELSE d[k]]

\* s.lstrip('^~')
RECURSIVE Lstrip(_)
Lstrip(str) ==
    IF str # << >> /\ Head(str) \in { "^", "~" } THEN Lstrip(Tail(str)) ELSE str

\* s.strip(), for the blanks of the texts above
RECURSIVE Strip(_)
Strip(str) ==
    IF str # << >> /\ Head(str) = " " THEN Strip(Tail(str))
    ELSE IF str # << >> /\ str[Len(str)] = " "
         THEN Strip(SubSeq(str, 1, Len(str) - 1))
         ELSE str

\* line.split('=')[0]
BeforeEquals(line) ==
    LET eqs == { i \in 1..Len(line) : line[i] = "=" }
    IN  IF eqs = {} THEN line
        ELSE SubSeq(line, 1, (CHOOSE i \in eqs : \A j \in eqs : i <= j) - 1)

\* scan() raises: json.loads in _detect_tech_stack is not guarded.
ScanRaises == project.package_json.kind = "malformed"

\* _detect_tech_stack
_detect_tech_stack(snap) ==
    LET pj == project.package_json
        deps == IF pj.kind = "json"
                THEN Get(pj.pkg, "dependencies", EmptyDict) ELSE EmptyDict
        frontend ==
            IF "react" \in DOMAIN deps
            THEN [frontend |-> << "React " >> \o Lstrip(deps["react"])]
            ELSE IF "vue" \in DOMAIN deps
                 THEN [frontend |-> << "Vue " >> \o Lstrip(deps["vue"])]
                 ELSE EmptyDict
        stack ==
            IF "tailwindcss" \in DOMAIN deps
            THEN DictPut(frontend, "styling", << "Tailwind CSS" >>)
            ELSE frontend
    IN  [snap EXCEPT !.tech_stack = stack]

\* _detect_dependencies: the entries are put into the dict the snapshot
\* already holds.
RECURSIVE PutImportant(_, _, _)
PutImportant(frontend, deps, important) ==
    IF important = << >> THEN frontend
    ELSE PutImportant(
            IF Head(important) \in DOMAIN deps
            THEN DictPut(frontend, Head(important),
                         Lstrip(deps[Head(important)]))
            ELSE frontend,
            deps, Tail(important))

_detect_dependencies(snap) ==
    LET pj == project.package_json
        deps == IF pj.kind = "json"
                THEN Get(pj.pkg, "dependencies", EmptyDict) ELSE EmptyDict
        important == << "react", "vue", "next", "electron", "tailwindcss",
                        "typescript", "vite", "webpack", "express" >>
    IN  [snap EXCEPT !.dependencies.frontend =
                        PutImportant(@, deps, important)]

\* _detect_env_vars: the entries are appended to the list the snapshot
\* already holds.
RECURSIVE AppendVars(_, _)
AppendVars(required, lines) ==
    IF lines = << >> THEN required
    ELSE LET line == Head(lines)
         IN  AppendVars(
                IF Contains(line, << "=" >>) /\ ~(line # << >> /\ line[1] = "#")
                THEN Append(required,
                            [name |-> Strip(BeforeEquals(line)),
                             description |-> "TODO: add description"])
                ELSE required,
                Tail(lines))

_detect_env_vars(snap) ==
    IF project.env_example.kind = "text"
    THEN [snap EXCEPT !.env_vars.required =
                         AppendVars(@, Split(project.env_example.text))]
    ELSE snap

\* _infer_purpose
_infer_purpose(f) ==
    IF f.parent \in { "components", "component" } THEN << f.stem, "-ui" >>
    ELSE IF f.parent \in { "hooks", "hook" } THEN << f.stem, "-logic" >>
    ELSE IF f.parent \in { "pages", "views" } THEN << f.stem, "-page" >>
    ELSE IF f.parent \in { "routes", "api" } THEN << f.stem, "-endpoints" >>
    ELSE IF f.parent \in { "services", "service" }
         THEN << f.stem, "-service" >>
    ELSE IF f.parent \in { "utils", "helpers", "lib" }
         THEN << f.stem, "-utils" >>
    ELSE IF f.parent \in { "models", "model" } THEN << f.stem, "-model" >>
    ELSE IF f.stem \in { "main", "app", "index", "server" }
         THEN << "entry-point" >>
    ELSE << f.stem >>

\* the names of a list for which node.name.startswith('_') is false
RECURSIVE PublicNames(_)
PublicNames(names) ==
    IF names = << >> THEN << >>
    ELSE IF Head(names) # << >> /\ Head(names)[1] = "_"
         THEN PublicNames(Tail(names))
         ELSE << Head(names) >> \o PublicNames(Tail(names))

\* The names a JS/TS file can hold, and what else the patterns match.
JsNames == { << "l", "o", "a", "d" >>, << "s", "a", "v", "e" >>,
             << "i", "n", "i", "t" >> }

\* The orders in which a process can iterate over a set of these names: the
\* hash of a str depends on the seed the interpreter draws at start-up.
HashSeeds ==
    { o \in [1..Cardinality(JsNames) -> JsNames] :
        \A n \in JsNames : \E k \in DOMAIN o : o[k] = n }

\* list(set(...)) in a process with this seed
ListOfSet(names, seed) == SelectSeq(seed, LAMBDA n : n \in names)

\* _extract_functions: for a .py file the names in the order of ast.walk,
\* for a .js/.jsx/.ts/.tsx file the matches of the patterns, filtered and
\* passed through a set.
_extract_functions(file) ==
    LET keywords == { << "i", "f" >>, << "f", "o", "r" >>,
                      << "w", "h", "i", "l", "e" >>,
                      << "s", "w", "i", "t", "c", "h" >> }
        functions ==
            IF ~file.readable THEN << >>
            ELSE IF file.kind = "python"
                 THEN IF ~file.parses THEN << >>
                      ELSE PublicNames(file.defs)
                 ELSE ListOfSet(
                        { file.matches[k] : k \in
                            { j \in 1..Len(file.matches) :
                                /\ file.matches[j] # << >>
                                /\ file.matches[j][1] # "_"
                                /\ file.matches[j] \notin keywords } },
                        hashseed)
    IN  SubSeq(functions, 1, Min2(10, Len(functions)))

\* The files of the project, by relative path.
PresentCode == { f \in CodeFiles : project.code[f.path].kind # "absent" }
PresentConfig ==
    (IF project.package_json.kind # "absent" THEN { "package.json" } ELSE {})
      \cup (IF project.env_example.kind # "absent"
            THEN { ".env.example" } ELSE {})

\* _scan_files: the entries are put into the dict the snapshot already
\* holds.
_scan_files(snap) ==
    [snap EXCEPT !.files =
        [p \in (DOMAIN @) \cup { f.path : f \in PresentCode }
                          \cup PresentConfig |->
            IF \E f \in PresentCode : f.path = p
            THEN LET f == CHOOSE g \in PresentCode : g.path = p
                 IN  [purpose |-> _infer_purpose(f),
                      functions |-> _extract_functions(project.code[p]),
                      category |-> "code"]
            ELSE IF p \in PresentConfig
            THEN [purpose |->
                     IF p = "package.json" THEN << "npm-config" >>
                     ELSE << "environment-vars" >>,
                  functions |-> << >>,
                  category |-> "config"]
            ELSE @[p]]]

\* The order in which rglob('*') lists the Python files.
CodeOrder == << "main.py", "services/auth.py" >>

\* connections after the ports found in one file are entered.
RECURSIVE PutPorts(_, _, _)
PutPorts(connections, ports, path) ==
    IF ports = << >> THEN connections
    ELSE PutPorts(IF 1000 <= Head(ports) /\ Head(ports) <= 65535
                  THEN DictPut(connections, Head(ports), path)
                  ELSE connections,
                  Tail(ports), path)

\* connections after the files of the list are searched; a file that is
\* absent is not listed, one that cannot be read is passed over.
RECURSIVE PutFiles(_, _)
PutFiles(connections, paths) ==
    IF paths = << >> THEN connections
    ELSE LET file == project.code[Head(paths)]
         IN  PutFiles(IF file.kind # "absent" /\ file.readable
                      THEN PutPorts(connections, file.ports, Head(paths))
                      ELSE connections,
                      Tail(paths))

\* _detect_connections: a fresh dict from port to the file that names it;
\* package.json holds no port.
_detect_connections(snap) ==
    [snap EXCEPT !.connections = PutFiles(EmptyDict, CodeOrder)]

\* _detect_run_commands
_detect_run_commands(snap) ==
    LET pj == project.package_json
        scripts == IF pj.kind = "json"
                   THEN Get(pj.pkg, "scripts", EmptyDict) ELSE EmptyDict
        frontend ==
            IF "dev" \in DOMAIN scripts THEN [frontend |-> "npm run dev"]
            ELSE IF "start" \in DOMAIN scripts
                 THEN [frontend |-> "npm start"]
                 ELSE EmptyDict
        run == IF "test" \in DOMAIN scripts
               THEN DictPut(frontend, "test_frontend", "npm test")
               ELSE frontend
    IN  [snap EXCEPT !.run = run]

\* The snapshot when scan() returns.
ScanOf(snap) ==
    _detect_run_commands(
      _detect_connections(
        _scan_files(
          _detect_env_vars(
            _detect_dependencies(
              _detect_tech_stack(snap))))))

ScannerInit ==
    /\ project \in Projects
    /\ snapshot = InitialSnapshot
    /\ instance = 1
    /\ scans = << >>
    /\ WatcherOff /\ StatusOff
    /\ HealthOff /\ SimilarityOff /\ ClassifierOff
    /\ ExtractOff
    /\ DuplicateOff
    /\ SizeOff
    /\ SkipOff
    /\ MemoryOff

\* GuardianScanner(project_path): a further instance.
NewScanner ==
    /\ instance < MaxInstances
    /\ instance' = instance + 1
    /\ snapshot' = InitialSnapshot
    /\ UNCHANGED << project, scans >>
    /\ UNCHANGED nonScannerVars

\* scan() on the current instance; the tree is not modified in between.
scan ==
    /\ Len(scans) < MaxScans
    /\ IF ScanRaises
       THEN /\ scans' = Append(scans, [instance |-> instance,
                                       outcome |-> "raised",
                                       snapshot |-> snapshot])
            /\ UNCHANGED snapshot
       ELSE /\ snapshot' = ScanOf(snapshot)
            /\ scans' = Append(scans, [instance |-> instance,
                                       outcome |-> "returned",
                                       snapshot |-> ScanOf(snapshot)])
    /\ UNCHANGED << project, instance >>
    /\ UNCHANGED nonScannerVars

ScannerNext == NewScanner \/ scan

SpecScanner == ScannerInit /\ [][ScannerNext]_vars

\* The two snapshots agree in every field but the timestamp.
EqualUpToTimestamp(s1, s2) ==
    /\ s1.files = s2.files
    /\ s1.tech_stack = s2.tech_stack
    /\ s1.dependencies = s2.dependencies
    /\ s1.env_vars = s2.env_vars
    /\ s1.connections = s2.connections
    /\ s1.run = s2.run

\* C12: two scans of the unmodified tree that returned give equal snapshots
\* up to the timestamp, on two fresh instances as well as on one instance.
C12_ScanIdempotent ==
    \A i, j \in 1..Len(scans) :
        (scans[i].outcome = "returned" /\ scans[j].outcome = "returned")
            => EqualUpToTimestamp(scans[i].snapshot, scans[j].snapshot)

\* C13: no scan() is aborted by a problem of one file or manifest: it
\* returns a snapshot that lists every file present, with an empty symbol
\* list for a Python file that cannot be read or parsed.
C13_ScanTotal ==
    \A i \in 1..Len(scans) :
        /\ scans[i].outcome = "returned"
        /\ \A f \in PresentCode :
              /\ f.path \in DOMAIN scans[i].snapshot.files
              /\ (~project.code[f.path].readable
                    \/ ~project.code[f.path].parses)
                    => scans[i].snapshot.files[f.path].functions = << >>

(***************************************************************************)
(* Scans of a tree that changes between them                               *)
(***************************************************************************)
\* A Python file of the project is deleted.
RemoveFile(p) ==
    /\ project.code[p].kind # "absent"
    /\ project' = [project EXCEPT !.code[p] = NoFile]
    /\ UNCHANGED << snapshot, instance, scans >>
    /\ UNCHANGED nonScannerVars

RescanNext ==
    \/ NewScanner
    \/ scan
    \/ \E p \in DOMAIN project.code : RemoveFile(p)

SpecRescan == ScannerInit /\ [][RescanNext]_vars

\* This step is a scan() call that returns.
ScanReturns ==
    /\ Len(scans') = Len(scans) + 1
    /\ scans'[Len(scans')].outcome = "returned"

\* An earlier scan() call on the current instance returned: its caller holds
\* the dict scan() returned, which is self.snapshot of this instance.
EarlierResult ==
    \E i \in 1..Len(scans) :
        scans[i].instance = instance /\ scans[i].outcome = "returned"

\* C22: every scan() builds its snapshot from scratch: what it returns is
\* what a scan of the tree by a fresh instance gives, so it lists exactly the
\* files the tree holds now; and the dict an earlier scan() call returned
\* has, after the later call, the value it had before.
C22_ScanFromScratch ==
    [][ScanReturns =>
          /\ snapshot' = ScanOf(InitialSnapshot)
          /\ DOMAIN snapshot'.files =
                { f.path : f \in PresentCode } \cup PresentConfig
          /\ EarlierResult => snapshot' = snapshot]_vars

(***************************************************************************)
(* Ports                                                                   *)
(***************************************************************************)
\* A port pattern matches this port number in the file at path p.
Matches(p, port) ==
    /\ project.code[p].kind # "absent"
    /\ project.code[p].readable
    /\ \E k \in 1..Len(project.code[p].ports) : project.code[p].ports[k] = port

\* C23: the connections of a scan that returned hold only ports in
\* [1000, 65535], each with the file of its first match in scan order.
C23_PortsInRangeFirstMatch ==
    \A i \in 1..Len(scans) :
        scans[i].outcome = "returned" =>
            \A port \in DOMAIN scans[i].snapshot.connections :
                /\ 1000 <= port /\ port <= 65535
                /\ \E k \in 1..Len(CodeOrder) :
                      /\ scans[i].snapshot.connections[port] = CodeOrder[k]
                      /\ Matches(CodeOrder[k], port)
                      /\ \A j \in 1..(k - 1) : ~Matches(CodeOrder[j], port)

(***************************************************************************)
(* _extract_functions on its own: one file, extracted from several times,  *)
(* by one process or by several.                                           *)
(***************************************************************************)
MaxRuns == 2

JavaScriptFile(matches) ==
    [kind |-> "javascript", readable |-> TRUE, matches |-> matches]

\* The files of the scanner model, a Python file with eleven public functions
\* and a private one, and JS files with the matches of the three patterns.
SourceFiles ==
    (FileStates \ { NoFile })
      \cup { PythonFile([i \in 1..12 |-> IF i = 12 THEN << "_", "z" >>
                                         ELSE << "f", Letters[i] >>],
                        << >>),
             [kind |-> "javascript", readable |-> FALSE],
             JavaScriptFile(<< >>),
             JavaScriptFile(<< << "l", "o", "a", "d" >>, << "i", "f" >>,
                               << "l", "o", "a", "d" >> >>),
             JavaScriptFile(<< << "s", "a", "v", "e" >>,
                               << "_", "t", "m", "p" >>,
                               << "l", "o", "a", "d" >>,
                               << "s", "a", "v", "e" >> >>),
             JavaScriptFile(<< << "i", "n", "i", "t" >>,
                               << "l", "o", "a", "d" >>,
                               << "s", "a", "v", "e" >> >>) }

ExtractInit ==
    /\ source \in SourceFiles
    /\ hashseed \in HashSeeds
    /\ runs = << >>
    /\ WatcherOff /\ StatusOff
    /\ ScannerOff /\ HealthOff /\ SimilarityOff /\ ClassifierOff
    /\ DuplicateOff
    /\ SizeOff
    /\ SkipOff
    /\ MemoryOff

\* The scanner is started anew: the interpreter draws another hash seed.
NewProcess ==
    /\ hashseed' \in HashSeeds
    /\ UNCHANGED << source, runs >>
    /\ UNCHANGED nonExtractVars

\* _extract_functions(file_path); the text of the file stays as it is.
extract ==
    /\ Len(runs) < MaxRuns
    /\ runs' = Append(runs, _extract_functions(source))
    /\ UNCHANGED << source, hashseed >>
    /\ UNCHANGED nonExtractVars

SpecExtract == ExtractInit /\ [][NewProcess \/ extract]_vars

\* C24: two extractions from the same text return the same sequence, of at
\* most 10 names.
C24_SymbolListDeterministic ==
    \A i, j \in 1..Len(runs) :
        /\ runs[i] = runs[j]
        /\ Len(runs[i]) <= 10

(***************************************************************************)
(* DuplicateFinder.scan (quality_control.py)                               *)
(***************************************************************************)
MaxFiles == 3

\* The skip_dirs of the _should_skip of each quality pass.
skip_dirs ==
    [DeadCodeDetector |->
        { "node_modules", "__pycache__", ".git", "venv", "dist", "build" },
     DuplicateFinder |->
        { "node_modules", "__pycache__", ".git", "venv", "dist", "build" },
     StructureEnforcer |->
        { "node_modules", "__pycache__", ".git", "venv", "dist", "build" },
     FileRegistry |->
        { "node_modules", "__pycache__", ".git", "venv", "dist", "build" }]

\* _should_skip of the given pass.  The last element of Path.parts, the file
\* name, is left out: no name of skip_dirs has a suffix.
_should_skip(pass, file_path) ==
    \E k \in 1..Len(DirParts(file_path)) :
        DirParts(file_path)[k] \in skip_dirs[pass]

\* The suffixes DuplicateFinder.scan groups files by.
DUPLICATE_EXTENSIONS ==
    { <<".", "p", "y">>, <<".", "j", "s">>, <<".", "j", "s", "x">>,
      <<".", "t", "s">>, <<".", "t", "s", "x">>, <<".", "c", "s", "s">>,
      <<".", "s", "c", "s", "s">> }

\* A file of n different lines; FileOfLines(m) holds the first m of them.
FileOfLines(n) ==
    TextFile(JoinLines([i \in 1..n |->
        << Letters[((i - 1) % Len(Letters)) + 1],
           Letters[((i - 1) \div Len(Letters)) + 1] >>]))

\* What rglob('*') yields: MaxFiles Python files (the second one in lib/ and
\* with an upper-case suffix), a Python file of an installed package, a
\* directory named like a Python file, two JS files and a text file.
Entry(dirs, name, is_file, file) ==
    [path |-> [dirs |-> dirs, name |-> name], is_file |-> is_file,
     file |-> file]

Listings ==
    LET texts == { FileOfLines(n) : n \in { 3, 4, 5, 19, 20 } }
    IN  { [i \in 1..MaxFiles |->
              Entry(IF i = 2 THEN << "lib" >> ELSE << >>,
                    << Letters[i] >> \o
                      (IF i = 2 THEN << ".", "P", "Y" >>
                       ELSE << ".", "p", "y" >>),
                    TRUE, py[i])]
            \o << Entry(<< "node_modules" >>, << "a", ".", "p", "y" >>,
                        TRUE, FileOfLines(4)),
                  Entry(<< >>, << "o", "l", "d", ".", "p", "y" >>,
                        FALSE, Unreadable),
                  Entry(<< >>, << "x", ".", "j", "s" >>, TRUE, js[1]),
                  Entry(<< >>, << "y", ".", "j", "s" >>, TRUE, js[2]),
                  Entry(<< >>, << "n", ".", "t", "x", "t" >>,
                        TRUE, FileOfLines(4)) >> :
            py \in [1..MaxFiles -> texts \cup { Unreadable }],
            js \in [1..2 -> { FileOfLines(4), FileOfLines(5) }] }

\* a >= b for two floats with positive denominators
AtLeast(a, b) == a.num * b.den >= b.num * a.den

\* _suggest_merge with its bands open at the lower end.
_suggest_merge_above(sim) ==
    IF ~AtLeast(Float(19, 20), sim)
    THEN "Files are nearly identical. Consider removing one and using a single file."
    ELSE IF ~AtLeast(Float(4, 5), sim)
    THEN "Files are very similar. Consider refactoring common code into a shared module."
    ELSE "Files share common code. Extract shared functionality into utilities."

\* _suggest_merge
_suggest_merge(sim) ==
    IF AtLeast(sim, Float(19, 20))
    THEN "Files are nearly identical. Consider removing one and using a single file."
    ELSE IF AtLeast(sim, Float(4, 5))
    THEN "Files are very similar. Consider refactoring common code into a shared module."
    ELSE "Files share common code. Extract shared functionality into utilities."

\* file_path.suffix.lower()
Ext(entry) == Lower(Suffix(entry.path.name))

\* The keys of files_by_ext in the order of their insertion.
RECURSIVE ExtOrder(_)
ExtOrder(files) ==
    IF files = << >> THEN << >>
    ELSE << Ext(Head(files)) >>
           \o SelectSeq(ExtOrder(Tail(files)),
                        LAMBDA e : e # Ext(Head(files)))

\* for i, file1 in enumerate(files): for file2 in files[i+1:]
RECURSIVE PairsOf(_)
PairsOf(files) ==
    IF Len(files) <= 1 THEN << >>
    ELSE [j \in 1..(Len(files) - 1) |-> << files[1], files[j + 1] >>]
           \o PairsOf(Tail(files))

\* The pairs compared, group after group.
RECURSIVE PairsByExt(_, _)
PairsByExt(files, exts) ==
    IF exts = << >> THEN << >>
    ELSE PairsOf(SelectSeq(files, LAMBDA f : Ext(f) = Head(exts)))
           \o PairsByExt(files, Tail(exts))

\* DuplicateFinder.scan: self.duplicates when it returns.  The field reason,
\* a text made of the similarity, is left out.
DuplicateFinder_scan(similarity_threshold) ==
    LET files == SelectSeq(listing, LAMBDA f :
                    /\ f.is_file
                    /\ ~_should_skip("DuplicateFinder", f.path)
                    /\ Ext(f) \in DUPLICATE_EXTENSIONS)
        compared == PairsByExt(files, ExtOrder(files))
        similar == SelectSeq(compared, LAMBDA p :
                      AtLeast(_calculate_similarity(p[1].file, p[2].file),
                              similarity_threshold))
    IN  [k \in 1..Len(similar) |->
            LET sim == _calculate_similarity(similar[k][1].file,
                                             similar[k][2].file)
            IN  [file1 |-> similar[k][1].path,
                 file2 |-> similar[k][2].path,
                 similarity |-> sim,
                 suggestion |-> _suggest_merge(sim)]]

DuplicateInit ==
    /\ listing \in Listings
    /\ threshold \in { Float(4, 5), Float(1, 2) }
    /\ duplicate_files = None
    /\ WatcherOff /\ StatusOff
    /\ ScannerOff /\ HealthOff /\ SimilarityOff /\ ClassifierOff
    /\ ExtractOff
    /\ SizeOff
    /\ SkipOff
    /\ MemoryOff

\* finder.scan(threshold)
FindDuplicates ==
    /\ duplicate_files = None
    /\ duplicate_files' = [duplicates |-> DuplicateFinder_scan(threshold)]
    /\ UNCHANGED << listing, threshold >>
    /\ UNCHANGED nonDuplicateVars

SpecDuplicates == DuplicateInit /\ [][FindDuplicates]_vars

\* The entry is a regular file the pass lists: it lies outside the pass's
\* skip directories and has one of the supported suffixes.
Listed(f) ==
    /\ f.is_file
    /\ ~_should_skip("DuplicateFinder", f.path)
    /\ Ext(f) \in DUPLICATE_EXTENSIONS

\* The reports about the two paths, in either order.
ReportsOf(p, q) ==
    { k \in 1..Len(duplicate_files.duplicates) :
        LET d == duplicate_files.duplicates[k]
        IN  { d.file1, d.file2 } = { p, q } }

\* C25: of the files the pass lists, an unordered pair is reported exactly
\* when the two have the same supported extension and their similarity is at
\* or above the threshold, and then exactly once; a report with similarity
\* >= 0.95 carries the 'remove one' suggestion, one with 0.8 <= similarity
\* < 0.95 the 'refactor into a shared module' suggestion.
C25_DuplicatePairsReported ==
    duplicate_files # None =>
        /\ \A i, j \in 1..Len(listing) :
              i < j =>
                Cardinality(ReportsOf(listing[i].path, listing[j].path)) =
                    IF /\ Listed(listing[i]) /\ Listed(listing[j])
                       /\ Ext(listing[i]) = Ext(listing[j])
                       /\ AtLeast(_calculate_similarity(listing[i].file,
                                                        listing[j].file),
                                  threshold)
                    THEN 1 ELSE 0
        /\ \A k \in 1..Len(duplicate_files.duplicates) :
              LET d == duplicate_files.duplicates[k]
              IN  /\ \E i, j \in 1..Len(listing) :
                        /\ i # j
                        /\ d.file1 = listing[i].path
                        /\ d.file2 = listing[j].path
                        /\ d.similarity =
                              _calculate_similarity(listing[i].file,
                                                    listing[j].file)
                  /\ AtLeast(d.similarity, Float(19, 20)) =>
                        d.suggestion = "Files are nearly identical. Consider removing one and using a single file."
                  /\ ( /\ AtLeast(d.similarity, Float(4, 5))
                       /\ ~AtLeast(d.similarity, Float(19, 20)) ) =>
                        d.suggestion = "Files are very similar. Consider refactoring common code into a shared module."

\* A scan with the default threshold that reported a pair at 0.95 exactly,
\* a pair at 0.8 exactly and a pair of identical files, and passed over a
\* pair of identical files one of which lies under node_modules.
C25_Witness ==
    /\ duplicate_files # None
    /\ threshold = Float(4, 5)
    /\ \E k \in 1..Len(duplicate_files.duplicates) :
          duplicate_files.duplicates[k].similarity = Float(19, 20)
    /\ \E k \in 1..Len(duplicate_files.duplicates) :
          duplicate_files.duplicates[k].similarity = Float(4, 5)
    /\ \E k \in 1..Len(duplicate_files.duplicates) :
          duplicate_files.duplicates[k].similarity = Float(1, 1)
    /\ \E i \in 1..Len(listing) :
          /\ Listed(listing[i])
          /\ listing[i].file = FileOfLines(4)

(***************************************************************************)
(* StructureEnforcer._check_function_sizes (quality_control.py)            *)
(***************************************************************************)
MaxFunctions == 3

\* self.rules['max_function_lines']
max_function_lines == 100

\* The lines of a Python file: a `def` line and the lines of a body.
DefLine(name) == << "d", "e", "f", " " >> \o name \o << "(", ")", ":" >>
BodyLine == << " ", " ", "p", "a", "s", "s" >>

\* A function of the given number of lines, its def line included.
FunctionText(name, span) ==
    << DefLine(name) >> \o [i \in 1..(span - 1) |-> BodyLine]

\* The Python files checked: an optional first line that belongs to no
\* function, then up to MaxFunctions functions f_a, f_b, ... one after the
\* other, each of 2, 100 or 101 lines.  spans records the length of each.
RECURSIVE FileText(_, _)
FileText(spans, k) ==
    IF k > Len(spans) THEN << >>
    ELSE FunctionText(<< "f", "_", Letters[k] >>, spans[k])
           \o FileText(spans, k + 1)

Modules ==
    { [spans |-> spans, lines |-> head \o FileText(spans, 1)] :
        spans \in UNION { [1..n -> { 2, max_function_lines,
                                     max_function_lines + 1 }] :
                            n \in 1..MaxFunctions },
        head \in { << >>, << << "i", "m", "p", "o", "r", "t", " ", "o", "s" >> >> } }

\* re.match(r'^\s*def\s+(\w+)\s*\(', line), for the lines above: the name
\* matched, None when the line does not match.
MatchDef(line) ==
    LET text == Strip(line)
        opens == { i \in 1..Len(text) : text[i] = "(" }
    IN  IF Len(text) > 4 /\ SubSeq(text, 1, 4) = << "d", "e", "f", " " >>
           /\ opens # {}
        THEN [name |-> Strip(SubSeq(text, 5,
                  (CHOOSE i \in opens : \A j \in opens : i <= j) - 1))]
        ELSE None

\* The oversized-function violation appended at lines 408-414.
FunctionTooLarge(current_function, func_lines) ==
    [violation_type |-> "function_too_large", severity |-> "info",
     function |-> current_function.name, func_lines |-> func_lines]

\* The loop of lines 405-419 over the lines that match, given by their
\* indices (counted from 0, as enumerate does); a line that does not match
\* changes nothing.  Ends with the loop: self.violations.
RECURSIVE CheckFrom(_, _, _, _, _)
CheckFrom(lines, matching, current_function, function_start, found) ==
    IF matching = {} THEN found
    ELSE LET i == CHOOSE m \in matching : \A n \in matching : m <= n
         IN  CheckFrom(lines, matching \ {i}, MatchDef(lines[i + 1]), i,
                IF /\ current_function # None
                   /\ i - function_start > max_function_lines
                THEN Append(found,
                            FunctionTooLarge(current_function,
                                             i - function_start))
                ELSE found)

\* _check_function_sizes for a .py file that can be read
_check_function_sizes(lines) ==
    CheckFrom(lines,
              { i \in 0..(Len(lines) - 1) : MatchDef(lines[i + 1]) # None },
              None, 0, << >>)

SizeInit ==
    /\ module \in Modules
    /\ size_violations = None
    /\ WatcherOff /\ StatusOff
    /\ ScannerOff /\ HealthOff /\ SimilarityOff /\ ClassifierOff
    /\ ExtractOff
    /\ DuplicateOff
    /\ SkipOff
    /\ MemoryOff

\* enforcer._check_function_sizes(file_path)
CheckFunctionSizes ==
    /\ size_violations = None
    /\ size_violations' = [violations |-> _check_function_sizes(module.lines)]
    /\ UNCHANGED module
    /\ UNCHANGED nonSizeVars

SpecSizes == SizeInit /\ [][CheckFunctionSizes]_vars

\* C26: every function whose line span exceeds max_function_lines has an
\* oversized-function violation, the last function of the file and the only
\* function of a file included.
C26_OversizedFunctionReported ==
    size_violations # None =>
        \A k \in 1..Len(module.spans) :
            module.spans[k] > max_function_lines =>
                \E v \in 1..Len(size_violations.violations) :
                    /\ size_violations.violations[v].violation_type =
                          "function_too_large"
                    /\ size_violations.violations[v].function =
                          << "f", "_", Letters[k] >>

(***************************************************************************)
(* The directories the scanner and the quality passes skip                 *)
(***************************************************************************)
MaxDepth == 2

\* GuardianScanner.SKIP_DIRS
SKIP_DIRS ==
    { "node_modules", "__pycache__", ".git", ".venv", "venv",
      "dist", "build", ".next", ".cache", "coverage", ".pytest_cache",
      ".cursor", ".windsurf", ".idea", ".vscode" }

\* any(skip in file_path.parts for skip in self.SKIP_DIRS)
ScannerSkips(file_path) ==
    \E k \in 1..Len(DirParts(file_path)) : DirParts(file_path)[k] \in SKIP_DIRS

\* A Python file up to MaxDepth directories below the project root.
Candidates ==
    { [dirs |-> d, name |-> << "a", ".", "p", "y" >>] :
        d \in UNION { [1..n -> SKIP_DIRS \cup { "src", "lib" }] :
                        n \in 1..MaxDepth } }

SkipInit ==
    /\ candidate \in Candidates
    /\ skipped = None
    /\ WatcherOff /\ StatusOff
    /\ ScannerOff /\ HealthOff /\ SimilarityOff /\ ClassifierOff
    /\ ExtractOff
    /\ DuplicateOff
    /\ SizeOff
    /\ MemoryOff

\* The skip test of the scanner and the _should_skip of each quality pass,
\* applied to the file.
AskSkips ==
    /\ skipped = None
    /\ skipped' =
          [p \in { "GuardianScanner" } \cup DOMAIN skip_dirs |->
              IF p = "GuardianScanner" THEN ScannerSkips(candidate)
              ELSE _should_skip(p, candidate)]
    /\ UNCHANGED candidate
    /\ UNCHANGED nonSkipVars

SpecSkip == SkipInit /\ [][AskSkips]_vars

\* C27: each quality pass skips a file exactly when the scanner skips it.
C27_SameSkipSet ==
    skipped # None =>
        \A p \in DOMAIN skip_dirs : skipped[p] = skipped["GuardianScanner"]

(***************************************************************************)
(* Locked decisions: EnhancedMemoryManager (memory_enhanced.py) and         *)
(* DecisionLock (decision_support.py).  The files decisions.json and       *)
(* changes.json hold what the two dicts hold and are left out, as are the  *)
(* time stamps of the records.                                             *)
(***************************************************************************)
MaxChanges == 4

Categories == { << "t", "e", "c", "h" >>, << "u", "i" >> }
DecisionTexts == { << "R", "e", "a", "c", "t" >>, << "r", "e", "a", "c", "t" >>,
                   << "V", "u", "e" >> }
Reasonings == { << "f", "a", "s", "t" >> }
\* DecisionStatus
DecisionStatus == { "PERMANENT", "CONDITIONAL", "TEMPORARY", "REVIEW" }

\* str(n) for n >= 0
RECURSIVE Str(_)
Str(n) ==
    LET digits == << "0", "1", "2", "3", "4", "5", "6", "7", "8", "9" >>
    IN  IF n < 10 THEN << digits[n + 1] >>
        ELSE Str(n \div 10) \o << digits[(n % 10) + 1] >>

\* _log_change: self.changes with the new record under change_{len + 1}; no
\* record is ever removed, so the ids are the positions of the sequence.
_log_change(change_type, description, reasoning) ==
    Append(memory_changes,
           [id |-> << "c", "h", "a", "n", "g", "e", "_" >>
                     \o Str(Len(memory_changes) + 1),
            change_type |-> change_type,
            description |-> description,
            files_affected |-> << >>,
            reasoning |-> reasoning,
            verification_status |-> "unverified"])

\* The LockedDecision lock_decision builds, under the id it generates.
LockedDecision(category, decision, reasoning, dstatus) ==
    [id |-> category \o << "_" >> \o Str(Cardinality(DOMAIN decisions) + 1),
     category |-> category,
     decision |-> decision,
     reasoning |-> reasoning,
     status |-> dstatus,
     locked_by |-> "user",
     alternatives_rejected |-> << >>]

\* The effect of lock_decision on the two dicts.
Lock(category, decision, reasoning, dstatus) ==
    LET locked == LockedDecision(category, decision, reasoning, dstatus)
    IN  /\ decisions' = DictPut(decisions, locked.id, locked)
        /\ memory_changes' =
              _log_change("DECISION_LOCKED",
                          << "Locked decision: " >> \o decision, reasoning)

\* The effect of unlock_decision on the two dicts, and the value returned.
Unlock(decision_id, reason) ==
    IF decision_id \notin DOMAIN decisions
    THEN [success |-> FALSE, decisions |-> decisions,
          changes |-> memory_changes]
    ELSE IF decisions[decision_id].status = "PERMANENT"
    THEN [success |-> FALSE, decisions |-> decisions,
          changes |-> memory_changes]
    ELSE [success |-> TRUE,
          decisions |-> [d \in (DOMAIN decisions) \ {decision_id} |->
                            decisions[d]],
          changes |-> _log_change("DECISION_UNLOCKED",
                         << "Unlocked decision: " >>
                            \o decisions[decision_id].decision,
                         reason)]

\* The calls are counted by the change log: one that would log is made
\* while the log has room.
Room == Len(memory_changes) < MaxChanges

\* The ids unlock calls are made with: those in use and one that is not.
DecisionIds == (DOMAIN decisions) \cup { << "u", "i", "_", "9" >> }

MemoryInit ==
    /\ decisions = << >>
    /\ memory_changes = << >>
    /\ returned = None
    /\ WatcherOff /\ StatusOff
    /\ ScannerOff /\ HealthOff /\ SimilarityOff /\ ClassifierOff
    /\ ExtractOff
    /\ DuplicateOff
    /\ SizeOff
    /\ SkipOff

\* EnhancedMemoryManager.lock_decision
lock_decision(category, decision, reasoning, dstatus) ==
    /\ Room
    /\ Lock(category, decision, reasoning, dstatus)
    /\ returned' = [op |-> "lock_decision", success |-> TRUE,
                    decision_id |->
                       LockedDecision(category, decision, reasoning,
                                      dstatus).id]
    /\ UNCHANGED nonMemoryVars

\* EnhancedMemoryManager.unlock_decision
unlock_decision(decision_id, reason) ==
    /\ Room
    /\ decisions' = Unlock(decision_id, reason).decisions
    /\ memory_changes' = Unlock(decision_id, reason).changes
    /\ returned' = [op |-> "unlock_decision",
                    success |-> Unlock(decision_id, reason).success,
                    decision_id |-> decision_id]
    /\ UNCHANGED nonMemoryVars

\* DecisionLock.request_lock; a status string the map does not know gives
\* PERMANENT.
request_lock(category, decision, reasoning, dstatus) ==
    /\ Room
    /\ IF decision = << >> \/ reasoning = << >>
       THEN /\ returned' = [op |-> "request_lock", success |-> FALSE,
                            decision_id |-> << >>]
            /\ UNCHANGED << decisions, memory_changes >>
       ELSE IF \E d \in DOMAIN decisions :
                  /\ decisions[d].category = category
                  /\ Lower(decisions[d].decision) = Lower(decision)
       THEN /\ returned' = [op |-> "request_lock", success |-> FALSE,
                            decision_id |-> << >>]
            /\ UNCHANGED << decisions, memory_changes >>
       ELSE LET st == IF dstatus \in DecisionStatus THEN dstatus
                      ELSE "PERMANENT"
            IN  /\ Lock(category, decision, reasoning, st)
                /\ returned' =
                      [op |-> "request_lock", success |-> TRUE,
                       decision_id |->
                          LockedDecision(category, decision, reasoning,
                                         st).id]
    /\ UNCHANGED nonMemoryVars

\* DecisionLock.request_unlock
request_unlock(decision_id, reason) ==
    /\ Room
    /\ IF decision_id \notin DOMAIN decisions
       THEN /\ returned' = [op |-> "request_unlock", success |-> FALSE,
                            decision_id |-> decision_id]
            /\ UNCHANGED << decisions, memory_changes >>
       ELSE IF decisions[decision_id].status = "PERMANENT"
       THEN /\ returned' = [op |-> "request_unlock", success |-> FALSE,
                            decision_id |-> decision_id]
            /\ UNCHANGED << decisions, memory_changes >>
       ELSE /\ decisions' = Unlock(decision_id, reason).decisions
            /\ memory_changes' = Unlock(decision_id, reason).changes
            /\ returned' = [op |-> "request_unlock",
                            success |-> Unlock(decision_id, reason).success,
                            decision_id |-> decision_id]
    /\ UNCHANGED nonMemoryVars

MemoryNext ==
    \/ \E c \in Categories, d \in DecisionTexts, r \in Reasonings,
          st \in { "PERMANENT", "TEMPORARY" } : lock_decision(c, d, r, st)
    \/ \E id \in DecisionIds : unlock_decision(id, << "o", "l", "d" >>)
    \/ \E c \in Categories, d \in DecisionTexts \cup { << >> },
          r \in Reasonings, st \in { "PERMANENT", "REVIEW", "FOREVER" } :
          request_lock(c, d, r, st)
    \/ \E id \in DecisionIds : request_unlock(id, << "o", "l", "d" >>)

SpecMemory == MemoryInit /\ [][MemoryNext]_vars

\* Every decision that is locked with status PERMANENT is locked after the
\* step too, with the same text, reasoning and status.
PermanentKept ==
    \A id \in DOMAIN decisions :
        decisions[id].status = "PERMANENT" =>
            /\ id \in DOMAIN decisions'
            /\ decisions'[id].decision = decisions[id].decision
            /\ decisions'[id].reasoning = decisions[id].reasoning
            /\ decisions'[id].status = "PERMANENT"

\* An unlock call on a PERMANENT decision fails and leaves the decisions
\* and the change log as they are.
PermanentUnlockFails ==
    \A id \in DOMAIN decisions :
        ( /\ decisions[id].status = "PERMANENT"
          /\ \/ unlock_decision(id, << "o", "l", "d" >>)
             \/ request_unlock(id, << "o", "l", "d" >>) ) =>
            /\ ~returned'.success
            /\ decisions' = decisions
            /\ memory_changes' = memory_changes

\* C28: a decision locked with status PERMANENT never changes, whatever
\* lock_decision, unlock_decision, request_lock and request_unlock calls
\* follow, and an unlock call on it fails without any effect.
C28_PermanentNeverChanges == [][PermanentKept /\ PermanentUnlockFails]_vars

\* C29: a lock_decision call adds one decision under an id that was not in
\* use and leaves every decision already locked as it is.
C29_LockAddsFreshId ==
    [][(\E c \in Categories, d \in DecisionTexts, r \in Reasonings,
           st \in { "PERMANENT", "TEMPORARY" } : lock_decision(c, d, r, st))
          => /\ Cardinality(DOMAIN decisions') =
                   Cardinality(DOMAIN decisions) + 1
             /\ \A id \in DOMAIN decisions :
                   decisions'[id] = decisions[id]]_vars

(***************************************************************************)
(* The watch loop under fair scheduling.  The clock of Spec stops at       *)
(* MaxTime, so here time is kept relative to now: when a second passes,    *)
(* every stored time stamp becomes one less instead of now one more (none  *)
(* below 0, which is more than DEBOUNCE_TIME before now and not after any  *)
(* wake-up), so that every difference between now and a time stamp is what *)
(* the second makes it.                                                    *)
(***************************************************************************)
MaxEdits == 1

Second ==
    /\ mainWake' = Max2(mainWake - 1, 0)
    /\ last_update' = Max2(last_update - 1, 0)
    /\ batchStart' = Max2(batchStart - 1, 0)
    /\ burst' = [burst EXCEPT !.first = Max2(@ - 1, 0)]
    /\ UNCHANGED << now, tree, guardianFile, guardian_path, eventQueue,
                    _file_hashes, pending_changes, pc, changes, fsOps,
                    unflushed >>
    /\ UNCHANGED nonWatcherVars

\* The steps of the main thread: watch()'s loop.
WatchLoop ==
    \/ Flush
    \/ DoUpdateEnter("main")
    \/ DoUpdateCopy("main")
    \/ DoUpdateClear("main")
    \/ DoUpdateStamp("main")
    \/ ScanSucceed("main")
    \/ ScanFail("main")

WatchNext ==
    \/ Second
    \/ fsOps < MaxEdits
          /\ \E p \in SourcePaths, c \in Contents : EditFile(p, c)
    \/ fsOps < MaxEdits /\ \E p \in SourcePaths : TouchFile(p)
    \/ fsOps < MaxEdits
          /\ \E p \in SourcePaths, c \in Contents : CreateFile(p, c)
    \/ fsOps < MaxEdits /\ \E p \in SourcePaths : DeleteFile(p)
    \/ Dispatch
    \/ QueueUpdateCheck
    \/ WatchLoop
    \/ DoUpdateEnter("observer")
    \/ DoUpdateCopy("observer")
    \/ DoUpdateClear("observer")
    \/ DoUpdateStamp("observer")
    \/ ScanSucceed("observer")
    \/ ScanFail("observer")

\* The clock goes on, and the main thread is not held up for ever: sleep
\* returns, and scan() and save() return or raise.
\* The watcher is started in a project that has no guardian file yet.
WatchInit == WatcherInit /\ guardianFile = Absent

SpecWatch ==
    /\ WatchInit
    /\ [][WatchNext]_vars
    /\ WF_vars(Second)
    /\ WF_vars(WatchLoop)

\* C30: under fair scheduling of the watch loop pending_changes is empty
\* infinitely often, so that no change added to it stays in it for ever;
\* and a change leaves it only by the clear of a _do_update call, which then
\* goes on to scan.
C30_PendingEventuallyConsumed ==
    /\ []<>(pending_changes = {})
    /\ [][~(pending_changes \subseteq pending_changes')
             => \E t \in Threads : DoUpdateClear(t)]_vars

\* flush() has found a change that the event handler left pending, and its
\* _do_update call has taken it.
C30_Witness ==
    /\ pc["main"] = "du_169"
    /\ changes["main"] # {}
    /\ pending_changes = {}
    /\ pc["observer"] = "idle"

====
